---- MODULE Spec2Model ----
(***************************************************************************)
(* Document indexing and retrieval engine of document-mcp-server.          *)
(*                                                                         *)
(* Backend A: FastDocumentStore (src/src/document_store.py), an in-process *)
(* flat L2 index with two persisted artifacts, faiss.index and docs.pkl.   *)
(* Backend B: PgVectorDocumentStore (src/src/document_store_pg.py), one    *)
(* relational table "documents" searched by cosine distance.               *)
(*                                                                         *)
(* One behaviour of the model follows one store (the variable backend      *)
(* says which) through calls of its public methods and process restarts.   *)
(* Every action is one whole call; where a call can fail or the process    *)
(* can stop inside it, the point where it stops is an input of the action. *)
(* Where calls of several threads overlap (SpecThreads, SpecTxn, SpecConn) *)
(* an action is one statement of a call. The ingestion runs of             *)
(* src/src/server.py and src/index_documents_pg.py read the documents      *)
(* folder (SpecIngest). DocumentProcessor.chunk_text is applied to bounded *)
(* texts (SpecChunker) and called repeatedly on one processor              *)
(* (SpecProcessor). GeoTools (src/src/geo_tools.py) is modelled by its     *)
(* cardinal_to_bearing (SpecBearing) and its cached geocode (SpecGeo).     *)
(***************************************************************************)
EXTENDS Integers, Sequences, FiniteSets, TLC

VARIABLES
    backend,    \* "A" (FastDocumentStore) or "B" (PgVectorDocumentStore)
    alive,      \* a store instance exists in a running process
    index,      \* A: self.index, as [d, ntotal, xb] (xb the flat vector array)
    documents,  \* A: self.documents
    metadata,   \* A: self.metadata
    disk,       \* A: the files store_path/faiss.index and store_path/docs.pkl
    table,      \* B: the rows of table documents, in id order
    lastOp,     \* the last call: its name, arguments, outcome and result
    credited,   \* chunks passed to add_documents calls that returned normally
                \* since the last clear that returned normally (bookkeeping)
    faults,     \* calls that stopped early so far (bookkeeping)
    threads,    \* the calls in progress, one per thread: where each stands
    base,       \* the store as it was when the first of those calls began
    schema,     \* B: the extension, table and indexes the database holds
    folder,     \* the files of the documents folder /app/data/documents
    calls,      \* the chunk_text calls one DocumentProcessor has answered
    geocode_cache, \* GeoTools: self.geocode_cache
    geocoder    \* GeoTools: the lookups self.geocoder (Nominatim) was sent
                \* and self.last_geocode_time

vars == <<backend, alive, index, documents, metadata, disk, table, lastOp,
          credited, faults, threads, base, schema, folder, calls,
          geocode_cache, geocoder>>

memA == <<index, documents, metadata>>

conc == <<threads, base>>

\* The variables of the objects beside the store.
side == <<calls, geocode_cache, geocoder>>

----------------------------------------------------------------------------
(* Bounds of the model *)

\* Embedding dimension used by the model (the program's is 384).
Dim == 2
\* Longest texts / metadatas list passed to one add_documents call.
MaxBatch == 2
\* Most chunks passed to add_documents between two clears, and most records
\* a store holds; add_documents is not called beyond it.
MaxStore == 2
\* Largest k passed to search.
MaxK == 2
\* Most calls of one behaviour that stop early (fail or crash).
MaxFaults == 1
\* Most rows of the table in the behaviours of SpecFilters.
MaxRows == 3
\* Threads that call one store at a time.
MaxThreads == 2
\* Most records the store holds in the behaviours of SpecIngest.
MaxIngest == 4
\* Longest text, in characters, and largest chunk_size given to chunk_text.
MaxText == 5
MaxChunk == 3
\* Most chunk_text calls made on one DocumentProcessor.
MaxCalls == 3
\* Most lookups sent to the external geocoder.
MaxLookups == 3

----------------------------------------------------------------------------
(* Values *)

None == <<>>
Some(v) == <<v>>

Min(a, b) == IF a < b THEN a ELSE b

SeqsUpTo(S, n) == UNION {[1..m -> S] : m \in 0..n}

IsPrefix(s, t) == Len(s) <= Len(t) /\ SubSeq(t, 1, Len(s)) = s

\* Chunk texts and queries.
Texts == {"alpha beta", "gamma delta"}
Queries == {"alpha", "gamma delta"}

\* A Python dict is a function from its keys.
EmptyDict == [key \in {} |-> None]
MetaA == [source_file |-> "a.pdf", chunk_index |-> 0, date_year |-> 1900,
          location |-> <<"B", "e", "n">>]
MetaB == [source_file |-> "b.pdf", chunk_index |-> 1]
Metas == {MetaA, MetaB}

\* dict.get(key): the value, or None
Get(m, key) == IF key \in DOMAIN m THEN Some(m[key]) ELSE None

----------------------------------------------------------------------------
(* The embedding model: an opaque, fixed function from a text to a vector  *)
(* of Dim components (SentenceTransformer.encode).                         *)

Embedding(t) ==
    LET a == CASE t = "alpha beta" -> 3
               [] t = "alpha" -> 2
               [] OTHER -> 1
        b == CASE t = "gamma delta" -> 3
               [] OTHER -> 1
    IN  [j \in 1..Dim |-> IF j = 1 THEN a ELSE b]

\* model.encode(texts): one vector per text, in the order of the texts
encode(texts) == [i \in 1..Len(texts) |-> Embedding(texts[i])]

----------------------------------------------------------------------------
(* Backend A: the flat index (faiss.IndexFlatL2)                           *)

\* faiss.IndexFlatL2(dimension): an empty index
IndexFlatL2(d) == [d |-> d, ntotal |-> 0, xb |-> <<>>]

RECURSIVE Flatten(_)
Flatten(vs) == IF vs = <<>> THEN <<>> ELSE Head(vs) \o Flatten(Tail(vs))

\* index.add(embeddings): the vectors are appended to the flat array
index_add(ix, embeddings) ==
    [ix EXCEPT !.ntotal = @ + Len(embeddings), !.xb = @ \o Flatten(embeddings)]

\* The vector stored at 0-based position idx.
Reconstruct(ix, idx) == SubSeq(ix.xb, idx * ix.d + 1, (idx + 1) * ix.d)

\* Squared Euclidean distance, the metric of IndexFlatL2.
RECURSIVE SumSq(_, _, _)
SumSq(u, v, j) ==
    IF j = 0 THEN 0 ELSE (u[j] - v[j]) * (u[j] - v[j]) + SumSq(u, v, j - 1)

L2Sq(u, v) == SumSq(u, v, Len(u))

\* index.search(query_vector, kk): the kk nearest stored positions, nearest
\* first. The order among equally distant vectors is the library's own, so
\* every order of them is a possible answer.
IndexSearch(ix, q, kk) ==
    LET dist(i) == L2Sq(Reconstruct(ix, i), q)
        Pos == 0..(ix.ntotal - 1)
    IN  {r \in [1..kk -> Pos] :
            /\ \A a, b \in 1..kk : a < b => r[a] # r[b]
            /\ \A a, b \in 1..kk : a < b => dist(r[a]) <= dist(r[b])
            /\ \A i \in Pos : (\A a \in 1..kk : r[a] # i) =>
                                \A a \in 1..kk : dist(r[a]) <= dist(i)}

----------------------------------------------------------------------------
(* Backend A: the two persisted artifacts                                  *)

\* A file is absent, complete ("ok", with its content) or was left
\* half-written by a write that stopped ("partial").
Absent == [st |-> "absent", data |-> <<>>]
Partial == [st |-> "partial", data |-> <<>>]
File(data) == [st |-> "ok", data |-> data]

NoFiles == [index |-> Absent, docs |-> Absent]

\* faiss.write_index: the index serialized as d, ntotal, the length of the
\* flat array and the array.
write_index(ix) == <<ix.d, ix.ntotal, Len(ix.xb)>> \o ix.xb

\* faiss.read_index: the index parsed back from the file content.
read_index(data) ==
    [d |-> data[1], ntotal |-> data[2], xb |-> SubSeq(data, 4, 3 + data[3])]

\* pickle.dump({'docs': ..., 'meta': ...}): the dict written as its items,
\* key then value; pickle.load builds the dict back from the items.
pickle_dump(obj) == <<"docs", obj.docs, "meta", obj.meta>>
pickle_load(data) == [docs |-> data[2], meta |-> data[4]]

\* The in-memory store as one value.
StoreOf(ix, docs, meta) == [index |-> ix, documents |-> docs, metadata |-> meta]
EmptyStore == StoreOf(IndexFlatL2(Dim), <<>>, <<>>)

\* Where a call of save() can stop: before anything is written
\* ("index_open": faiss.write_index cannot open its file), while the index file
\* is being written ("index_write"), between the two files ("docs_open":
\* open(docs.pkl, 'wb') fails), while docs.pkl is being written ("docs_write":
\* open() has truncated it, pickle.dump stops), or not at all ("done").
SaveStops == {"index_open", "index_write", "docs_open", "docs_write", "done"}

\* save() without its second write: docs.pkl is never written.
save_IndexOnly(d, s, stop) ==
    [index |-> IF stop = "index_open" THEN d.index
               ELSE IF stop = "index_write" THEN Partial
               ELSE File(write_index(s.index)),
     docs |-> d.docs]

\* save(): faiss.index is written in place, then docs.pkl is written in place.
save(d, s, stop) ==
    LET ixf == CASE stop = "index_open" -> d.index
                 [] stop = "index_write" -> Partial
                 [] OTHER -> File(write_index(s.index))
        dcf == CASE stop \in {"index_open", "index_write", "docs_open"} -> d.docs
                 [] stop = "docs_write" -> Partial
                 [] OTHER -> File(pickle_dump([docs |-> s.documents,
                                               meta |-> s.metadata]))
    IN  [index |-> ixf, docs |-> dcf]

\* load(), run on the fresh store s of the constructor: each artifact that
\* exists is read; reading a half-written artifact raises.
load(s, d) ==
    LET ix == IF d.index.st = "ok" THEN read_index(d.index.data) ELSE s.index
        pk == pickle_load(d.docs.data)
    IN  IF d.index.st = "partial" \/ d.docs.st = "partial"
        THEN [outcome |-> "raise", store |-> EmptyStore]
        ELSE [outcome |-> "ok",
              store |-> StoreOf(ix,
                                IF d.docs.st = "ok" THEN pk.docs ELSE s.documents,
                                IF d.docs.st = "ok" THEN pk.meta ELSE s.metadata)]

\* FastDocumentStore(store_path): an empty index and empty lists, then load().
Construct(d) == load(EmptyStore, d)

\* add_documents putting the new records before the stored ones.
Extend_Prepend(s, texts, metadatas) ==
    StoreOf([s.index EXCEPT !.ntotal = @ + Len(texts),
                            !.xb = Flatten(encode(texts)) \o @],
            texts \o s.documents,
            (IF metadatas # None /\ metadatas[1] # <<>>
             THEN metadatas[1]
             ELSE [i \in 1..Len(texts) |-> EmptyDict]) \o s.metadata)

\* add_documents, lines 41-49: the vectors go to the index, the texts to
\* documents, and metadatas (or one {} per text when metadatas is None or
\* empty) to metadata.
Extend(s, texts, metadatas) ==
    StoreOf(index_add(s.index, encode(texts)),
            s.documents \o texts,
            s.metadata \o (IF metadatas # None /\ metadatas[1] # <<>>
                           THEN metadatas[1]
                           ELSE [i \in 1..Len(texts) |-> EmptyDict]))

----------------------------------------------------------------------------
(* Backend B: the table documents. A row is a record of the columns; the   *)
(* rows are kept in insertion order (the order of the SERIAL id).          *)

\* add_documents, lines 105-117: one row per (text, embedding, metadata) of
\* zip(texts, embeddings, metadatas); a column is NULL where the metadata has
\* no such key.
RowOf(text, embedding, meta) ==
    [content |-> text,
     embedding |-> embedding,
     source_file |-> Get(meta, "source_file"),
     file_type |-> Get(meta, "file_type"),
     file_path |-> Get(meta, "file_path"),
     chunk_index |-> Get(meta, "chunk_index"),
     date_year |-> Get(meta, "date_year"),
     location |-> Get(meta, "location")]

PrepareData(texts, metadatas) ==
    LET metas == IF metadatas = None
                 THEN [i \in 1..Len(texts) |-> EmptyDict]
                 ELSE metadatas[1]
        embeddings == encode(texts)
    IN  [i \in 1..Min(Len(texts), Len(metas)) |->
            RowOf(texts[i], embeddings[i], metas[i])]

\* search, lines 225-236: a row as the result dict's metadata
MetadataOf(row) ==
    [source_file |-> row.source_file,
     file_type |-> row.file_type,
     file_path |-> row.file_path,
     chunk_index |-> row.chunk_index,
     date_year |-> row.date_year,
     location |-> row.location]

UpperCase == <<"A", "B", "C", "D", "E", "F", "G", "H", "I", "J", "K", "L", "M",
               "N", "O", "P", "Q", "R", "S", "T", "U", "V", "W", "X", "Y", "Z">>
LowerCase == <<"a", "b", "c", "d", "e", "f", "g", "h", "i", "j", "k", "l", "m",
               "n", "o", "p", "q", "r", "s", "t", "u", "v", "w", "x", "y", "z">>

Lower(c) ==
    IF \E i \in 1..Len(UpperCase) : UpperCase[i] = c
    THEN LowerCase[CHOOSE i \in 1..Len(UpperCase) : UpperCase[i] = c]
    ELSE c

\* str ILIKE pattern: % matches any run of characters, _ any one character,
\* any other character itself without regard to case.
RECURSIVE ILike(_, _)
ILike(str, pat) ==
    IF pat = <<>> THEN str = <<>>
    ELSE IF Head(pat) = "%"
         THEN ILike(str, Tail(pat)) \/ (str # <<>> /\ ILike(Tail(str), pat))
         ELSE /\ str # <<>>
              /\ Head(pat) = "_" \/ Lower(Head(str)) = Lower(Head(pat))
              /\ ILike(Tail(str), Tail(pat))

\* The filters of a search call; None where the argument is not given.
NoFilter ==
    [date_year |-> None, date_year_range |-> None, location |-> None,
     source_file |-> None]
FilterSet ==
    {NoFilter,
     [NoFilter EXCEPT !.date_year_range = Some(<<1860, 1950>>),
                      !.location = Some(<<"b", "e">>)],
     [NoFilter EXCEPT !.source_file = Some("b.pdf")],
     [NoFilter EXCEPT !.date_year = Some(1900),
                      !.source_file = Some("b.pdf")]}

\* A WHERE clause that joins the filters' conditions with OR.
Where_Any(row, f) ==
    \/ f = NoFilter
    \/ f.date_year # None
          /\ row.date_year # None /\ row.date_year[1] = f.date_year[1]
    \/ /\ f.date_year_range # None
       /\ row.date_year # None
       /\ f.date_year_range[1][1] <= row.date_year[1]
       /\ row.date_year[1] <= f.date_year_range[1][2]
    \/ /\ f.location # None
       /\ row.location # None
       /\ ILike(row.location[1], <<"%">> \o f.location[1] \o <<"%">>)
    \/ f.source_file # None
          /\ row.source_file # None /\ row.source_file[1] = f.source_file[1]

\* search, lines 161-182: the WHERE clause, one conjunct per given filter.
\* A comparison with a NULL column is not true.
Where(row, f) ==
    /\ f.date_year # None =>
          row.date_year # None /\ row.date_year[1] = f.date_year[1]
    /\ f.date_year_range # None =>
          /\ row.date_year # None
          /\ f.date_year_range[1][1] <= row.date_year[1]
          /\ row.date_year[1] <= f.date_year_range[1][2]
    /\ f.location # None =>
          /\ row.location # None
          /\ ILike(row.location[1], <<"%">> \o f.location[1] \o <<"%">>)
    /\ f.source_file # None =>
          row.source_file # None /\ row.source_file[1] = f.source_file[1]

RECURSIVE DotTo(_, _, _)
DotTo(u, v, j) == IF j = 0 THEN 0 ELSE u[j] * v[j] + DotTo(u, v, j - 1)

Dot(u, v) == DotTo(u, v, Len(u))

\* embedding <=> q, compared without square roots:
\* a is at most as far from q as b is, in cosine distance.
CosineLeq(a, b, q) ==
    LET da == Dot(a, q)
        db == Dot(b, q)
    IN  CASE da >= 0 /\ db >= 0 -> da * da * Dot(b, b) >= db * db * Dot(a, a)
          [] da >= 0 /\ db < 0 -> TRUE
          [] da < 0 /\ db >= 0 -> FALSE
          [] OTHER -> da * da * Dot(b, b) <= db * db * Dot(a, a)

\* a points in the direction of q: its cosine distance to q is 0.
SameDirection(a, q) ==
    Dot(a, q) > 0 /\ Dot(a, q) * Dot(a, q) = Dot(a, a) * Dot(q, q)

\* The sets of rows an ivfflat scan for q may rank, of the rows match: a row
\* lies in the list whose centre is nearest to its vector and the scan probes
\* the list whose centre is nearest to q. So a row in the direction of q is
\* always ranked, rows of one direction are ranked together or not at all,
\* and any other row may lie in a list the scan does not probe.
Candidates(rows, match, q) ==
    {cand \in SUBSET match :
        /\ \A i \in match : SameDirection(rows[i].embedding, q) => i \in cand
        /\ \A i \in cand, j \in match :
              SameDirection(rows[i].embedding, rows[j].embedding) => j \in cand}

\* The query without its LIMIT clause.
Select_NoLimit(rows, f, q, k) ==
    LET match == {i \in 1..Len(rows) : Where(rows[i], f)}
        leq(i, j) == CosineLeq(rows[i].embedding, rows[j].embedding, q)
    IN  UNION {
          LET n == Cardinality(cand)
          IN  {r \in [1..n -> cand] :
                 /\ \A a, b \in 1..n : a < b => r[a] # r[b]
                 /\ \A a, b \in 1..n : a < b => leq(r[a], r[b])}
          : cand \in Candidates(rows, match, q)}

\* The query of search, lines 185-199: of the rows that satisfy WHERE, at
\* most k, nearest first. The ivfflat index makes the scan approximate: it
\* ranks the rows of the lists it probes (cand), which need not be all the
\* matching rows; the query has no second sort key, so the order among
\* equally distant rows is the engine's.
\* The answer is a sequence of positions in the table.
Select(rows, f, q, k) ==
    LET match == {i \in 1..Len(rows) : Where(rows[i], f)}
        leq(i, j) == CosineLeq(rows[i].embedding, rows[j].embedding, q)
    IN  UNION {
          LET n == Min(k, Cardinality(cand))
          IN  {r \in [1..n -> cand] :
                 /\ \A a, b \in 1..n : a < b => r[a] # r[b]
                 /\ \A a, b \in 1..n : a < b => leq(r[a], r[b])
                 /\ \A i \in cand : (\A a \in 1..n : r[a] # i) =>
                                       \A a \in 1..n : leq(r[a], i)}
          : cand \in Candidates(rows, match, q)}

----------------------------------------------------------------------------
(* Backend B: the schema. The database holds a set of named objects.       *)

\* _init_database, lines 35-73: the objects its statements create, in the
\* order of the statements.
Statements ==
    <<"vector", "documents", "documents_embedding_idx",
      "documents_source_file_idx", "documents_date_year_idx",
      "documents_location_idx">>

\* What an object needs to exist already: the table has a column of the
\* extension's type, an index is on the table.
Requires(obj) ==
    CASE obj = "vector" -> {}
      [] obj = "documents" -> {"vector"}
      [] OTHER -> {"documents"}

\* CREATE ... obj without IF NOT EXISTS: an error where obj exists.
CreatePlain(db, obj) ==
    IF obj \in db \/ ~(Requires(obj) \subseteq db)
    THEN [outcome |-> "raise", schema |-> db]
    ELSE [outcome |-> "ok", schema |-> db \cup {obj}]

\* CREATE ... IF NOT EXISTS obj: obj is created where it does not exist and
\* left as it is where it does.
CreateIfNotExists(db, obj) ==
    IF ~(Requires(obj) \subseteq db)
    THEN [outcome |-> "raise", schema |-> db]
    ELSE [outcome |-> "ok", schema |-> db \cup {obj}]

RECURSIVE Execute(_, _)
Execute(db, stmts) ==
    IF stmts = <<>> THEN [outcome |-> "ok", schema |-> db]
    ELSE LET r == CreateIfNotExists(db, Head(stmts))
         IN  IF r.outcome # "ok" THEN r ELSE Execute(r.schema, Tail(stmts))

\* _init_database(): the statements run in one transaction, committed at
\* line 74; when one raises, the connection is closed without a commit and
\* the database keeps what it held.
init_database(db) ==
    LET r == Execute(db, Statements)
    IN  IF r.outcome = "ok" THEN r ELSE [outcome |-> "raise", schema |-> db]

----------------------------------------------------------------------------
(* State *)

\* The record of a call; the fields a call does not use keep these values.
\* before is the number of texts (A) or rows (B) the store held when the call
\* began; reindex and files are the argument of an ingestion run and the
\* files its glob found; text, chunk_size and chunk_overlap are the text
\* given to chunk_text and the settings of its DocumentProcessor; direction
\* is the argument of cardinal_to_bearing, location and region those of
\* geocode.
NoCall ==
    [op |-> "none", texts |-> <<>>, metadatas |-> None, query |-> "",
     k |-> 0, filters |-> NoFilter, stop |-> "done", outcome |-> "ok",
     result |-> <<>>, before |-> 0, reindex |-> FALSE, files |-> <<>>,
     text |-> <<>>, chunk_size |-> 0, chunk_overlap |-> 0,
     direction |-> <<>>, location |-> <<>>, region |-> <<>>]

\* The threads of the process that holds the store.
Threads == 1..MaxThreads

\* A thread's call in progress: pc names the statement the thread runs next
\* ("idle": no call, "done": the call has returned or raised). embeddings,
\* ix, r and staged are the call's local values: the encoded batch, the index
\* object and the positions index.search answered, and the rows the call's
\* transaction has written (they are not in the table before the commit).
\* stop is the statement at which the call raised, "done" if it did not.
\* open counts the database connections the call has opened and not closed.
NoThread ==
    [op |-> "none", pc |-> "idle", texts |-> <<>>, metadatas |-> None,
     query |-> "", k |-> 0, embeddings |-> <<>>,
     ix |-> IndexFlatL2(Dim), r |-> <<>>, staged |-> <<>>,
     stop |-> "done", outcome |-> "ok", result |-> <<>>, open |-> 0]

NoBase == [store |-> EmptyStore, disk |-> NoFiles, table |-> <<>>]

\* GeoTools.__init__, lines 28 and 37: a geocoder that was sent nothing;
\* time is counted in lookups sent.
NoLookups == [sent |-> <<>>, last_geocode_time |-> 0]

\* How a call that stops early ends: the exception reaches the caller and the
\* store lives on ("raise"), or the process is gone ("crash").
Modes == {"raise", "crash"}

Outcome(stop, mode) == IF stop = "done" THEN "ok" ELSE mode

\* The state after the first construction of a store of backend b: Backend A
\* on a store_path that holds no artifact, Backend B on an empty table.
InitStore(b) ==
    /\ backend = b
    /\ alive = TRUE
    /\ index = IndexFlatL2(Dim)
    /\ documents = <<>>
    /\ metadata = <<>>
    /\ disk = NoFiles
    /\ table = <<>>
    /\ lastOp = [NoCall EXCEPT !.op = "init"]
    /\ credited = 0
    /\ faults = 0
    /\ threads = [t \in Threads |-> NoThread]
    /\ base = NoBase
    /\ schema = IF b = "B" THEN init_database({}).schema ELSE {}
    /\ folder = {}
    /\ calls = <<>>
    /\ geocode_cache = EmptyDict
    /\ geocoder = NoLookups

Init == \E b \in {"A", "B"} : InitStore(b)

\* A call may stop early only while the behaviour has faults left.
Fault(stop) ==
    /\ stop # "done" => faults < MaxFaults
    /\ faults' = IF stop # "done" THEN faults + 1 ELSE faults

\* The arguments a caller may pass to add_documents.
TextLists == SeqsUpTo(Texts, MaxBatch)
MetadataArgs == {None} \cup {Some(ms) : ms \in SeqsUpTo(Metas, MaxBatch)}

Largest(a, b, c) ==
    IF a >= b /\ a >= c THEN a ELSE IF b >= c THEN b ELSE c

----------------------------------------------------------------------------
(* Backend A: FastDocumentStore *)

SetStoreA(s) ==
    /\ index' = s.index
    /\ documents' = s.documents
    /\ metadata' = s.metadata

CurrentA == StoreOf(index, documents, metadata)

\* add_documents without the early return of lines 30-31.
AddDocumentsA_NoEarlyReturn(texts, metadatas, stop, mode) ==
    LET out == Outcome(stop, mode)
        ext == Extend(CurrentA, texts, metadatas)
    IN  /\ backend = "A" /\ alive
        /\ Largest(index.ntotal, Len(documents), Len(metadata)) + Len(texts)
              <= MaxStore
        /\ credited + Len(texts) <= MaxStore
        /\ texts = <<>> => stop = "done"
        /\ stop = "done" => mode = "raise"
        /\ Fault(stop)
        /\ lastOp' = [NoCall EXCEPT !.op = "add", !.texts = texts,
                                    !.metadatas = metadatas, !.stop = stop,
                                    !.outcome = out,
                                    !.before = Len(documents)]
        /\ alive' = (out # "crash")
        /\ IF stop = "encode"
           THEN /\ disk' = disk
                /\ SetStoreA(IF out = "crash" THEN EmptyStore ELSE CurrentA)
           ELSE /\ disk' = save(disk, ext, stop)
                /\ SetStoreA(IF out = "crash" THEN EmptyStore ELSE ext)
        /\ credited' = IF out = "ok" THEN credited + Len(texts) ELSE credited
        /\ UNCHANGED <<backend, conc, schema, folder, table, side>>

\* add_documents whose embedding call fails after the batch is stored.
AddDocumentsA_EncodeLate(texts, metadatas, stop, mode) ==
    LET out == Outcome(stop, mode)
        ext == Extend(CurrentA, texts, metadatas)
    IN  /\ backend = "A" /\ alive
        /\ Largest(index.ntotal, Len(documents), Len(metadata)) + Len(texts)
              <= MaxStore
        /\ credited + Len(texts) <= MaxStore
        /\ texts = <<>> => stop = "done"
        /\ stop = "done" => mode = "raise"
        /\ Fault(stop)
        /\ lastOp' = [NoCall EXCEPT !.op = "add", !.texts = texts,
                                    !.metadatas = metadatas, !.stop = stop,
                                    !.outcome = out,
                                    !.before = Len(documents)]
        /\ alive' = (out # "crash")
        /\ IF texts = <<>>
           THEN /\ disk' = disk
                /\ SetStoreA(IF out = "crash" THEN EmptyStore ELSE CurrentA)
           ELSE /\ disk' = save(disk, ext, stop)
                /\ SetStoreA(IF out = "crash" THEN EmptyStore ELSE ext)
        /\ credited' = IF out = "ok" THEN credited + Len(texts) ELSE credited
        /\ UNCHANGED <<backend, conc, schema, folder, table, side>>

\* add_documents(texts, metadatas)
AddDocumentsA(texts, metadatas, stop, mode) ==
    LET out == Outcome(stop, mode)
        ext == Extend(CurrentA, texts, metadatas)
    IN  /\ backend = "A" /\ alive
        /\ Largest(index.ntotal, Len(documents), Len(metadata)) + Len(texts)
              <= MaxStore
        /\ credited + Len(texts) <= MaxStore
        /\ texts = <<>> => stop = "done"
        /\ stop = "done" => mode = "raise"
        /\ Fault(stop)
        /\ lastOp' = [NoCall EXCEPT !.op = "add", !.texts = texts,
                                    !.metadatas = metadatas, !.stop = stop,
                                    !.outcome = out,
                                    !.before = Len(documents)]
        /\ alive' = (out # "crash")
        /\ IF texts = <<>> \/ stop = "encode"
           THEN /\ disk' = disk
                /\ SetStoreA(IF out = "crash" THEN EmptyStore ELSE CurrentA)
           ELSE /\ disk' = save(disk, ext, stop)
                /\ SetStoreA(IF out = "crash" THEN EmptyStore ELSE ext)
        /\ credited' = IF out = "ok" THEN credited + Len(texts) ELSE credited
        /\ UNCHANGED <<backend, conc, schema, folder, table, side>>

\* clear() that resets the lists and leaves the index as it is.
ClearA_KeepsIndex(stop, mode) ==
    LET out == Outcome(stop, mode)
        s == StoreOf(index, <<>>, <<>>)
    IN  /\ backend = "A" /\ alive
        /\ stop = "done" => mode = "raise"
        /\ Fault(stop)
        /\ lastOp' = [NoCall EXCEPT !.op = "clear", !.stop = stop,
                                    !.outcome = out,
                                    !.before = Len(documents)]
        /\ alive' = (out # "crash")
        /\ SetStoreA(s)
        /\ disk' = save(disk, s, stop)
        /\ credited' = IF out = "ok" THEN 0 ELSE credited
        /\ UNCHANGED <<backend, conc, schema, folder, table, side>>

\* clear()
ClearA(stop, mode) ==
    LET out == Outcome(stop, mode)
    IN  /\ backend = "A" /\ alive
        /\ stop = "done" => mode = "raise"
        /\ Fault(stop)
        /\ lastOp' = [NoCall EXCEPT !.op = "clear", !.stop = stop,
                                    !.outcome = out,
                                    !.before = Len(documents)]
        /\ alive' = (out # "crash")
        /\ SetStoreA(EmptyStore)
        /\ disk' = save(disk, EmptyStore, stop)
        /\ credited' = IF out = "ok" THEN 0 ELSE credited
        /\ UNCHANGED <<backend, conc, schema, folder, table, side>>

\* search, lines 67-76: the hits whose position lies within documents, in
\* the order of the index's answer.
RECURSIVE Hits(_, _, _, _)
Hits(r, ix, q, s) ==
    IF r = <<>> THEN <<>>
    ELSE LET idx == Head(r)
             distance == L2Sq(Reconstruct(ix, idx), q)
         IN  (IF idx < Len(s.documents) /\ idx >= 0
              THEN <<[text |-> s.documents[idx + 1],
                      metadata |-> s.metadata[idx + 1],
                      distance |-> distance,
                      similarity |-> [num |-> 1, den |-> 1 + distance],
                      pos |-> idx + 1]>>
              ELSE <<>>)
             \o Hits(Tail(r), ix, q, s)

\* self.metadata[idx] raises IndexError for a hit that has a text but no
\* metadata entry.
HitsRaise(r, s) ==
    \E a \in 1..Len(r) : r[a] < Len(s.documents) /\ r[a] >= Len(s.metadata)

\* What search(query, k) can return in store s: "ok" with the results, or
\* "raise". With k = 0 on a non-empty index the library either rejects the
\* call or answers no hit, depending on its version.
SearchOutcomesA(s, query, k, stop) ==
    LET q == Embedding(query)
        kk == Min(k, s.index.ntotal)
    IN  IF s.index.ntotal = 0
        THEN {[outcome |-> "ok", result |-> <<>>]}
        ELSE IF stop = "encode"
        THEN {[outcome |-> "raise", result |-> <<>>]}
        ELSE IF kk = 0
        THEN {[outcome |-> "ok", result |-> <<>>],
              [outcome |-> "raise", result |-> <<>>]}
        ELSE {IF HitsRaise(r, s)
              THEN [outcome |-> "raise", result |-> <<>>]
              ELSE [outcome |-> "ok", result |-> Hits(r, s.index, q, s)]
              : r \in IndexSearch(s.index, q, kk)}

\* search that first reloads the store from the artifacts.
SearchA_Reload(query, k, stop) ==
    /\ backend = "A" /\ alive
    /\ index.ntotal = 0 => stop = "done"
    /\ Fault(stop)
    /\ \E o \in SearchOutcomesA(CurrentA, query, k, stop) :
          lastOp' = [NoCall EXCEPT !.op = "search", !.query = query, !.k = k,
                                   !.stop = stop, !.outcome = o.outcome,
                                   !.result = o.result,
                                   !.before = Len(documents)]
    /\ SetStoreA(Construct(disk).store)
    /\ UNCHANGED <<backend, conc, schema, folder, alive, disk, table,
                   credited, side>>

SearchA(query, k, stop) ==
    /\ backend = "A" /\ alive
    /\ index.ntotal = 0 => stop = "done"
    /\ Fault(stop)
    /\ \E o \in SearchOutcomesA(CurrentA, query, k, stop) :
          lastOp' = [NoCall EXCEPT !.op = "search", !.query = query, !.k = k,
                                   !.stop = stop, !.outcome = o.outcome,
                                   !.result = o.result,
                                   !.before = Len(documents)]
    /\ UNCHANGED <<backend, conc, schema, folder, alive, index, documents,
                   metadata, disk, table, credited, side>>

\* search(query, k, date_year=..., ...), the request Backend B takes: the
\* signature of line 54 has the parameters query and k alone, so the call
\* raises TypeError while its arguments are bound, before the body runs.
SearchFilteredA(query, k, f) ==
    /\ backend = "A" /\ alive
    /\ f # NoFilter
    /\ lastOp' = [NoCall EXCEPT !.op = "search", !.query = query, !.k = k,
                                !.filters = f, !.stop = "signature",
                                !.outcome = "raise",
                                !.before = Len(documents)]
    /\ UNCHANGED <<backend, conc, schema, folder, alive, index, documents,
                   metadata, disk, table, credited, faults, side>>

\* get_stats()
StatsA(s) ==
    [total_chunks |-> Len(s.documents), index_size |-> s.index.ntotal,
     dimension |-> Dim]

GetStatsA ==
    /\ backend = "A" /\ alive
    /\ lastOp' = [NoCall EXCEPT !.op = "stats", !.result = StatsA(CurrentA),
                                !.before = Len(documents)]
    /\ UNCHANGED <<backend, conc, schema, folder, alive, index, documents,
                   metadata, disk, table, credited, faults, side>>

\* The process ends (if one runs) and a new one constructs the store on the
\* same store_path.
RestartA ==
    LET c == Construct(disk)
    IN  /\ backend = "A"
        /\ lastOp' = [NoCall EXCEPT !.op = "init", !.outcome = c.outcome]
        /\ alive' = (c.outcome = "ok")
        /\ SetStoreA(c.store)
        /\ UNCHANGED <<backend, conc, schema, folder, disk, table, credited,
                       faults, side>>

----------------------------------------------------------------------------
(* Backend B: PgVectorDocumentStore *)

\* Where add_documents can stop: the embedding call, psycopg2.connect, the
\* INSERT (the transaction is never committed), or the count of line 133,
\* which runs after the commit.
AddStopsB == {"encode", "connect", "insert", "count", "done"}

\* add_documents(texts, metadatas), on a table of any size
InsertB(texts, metadatas, stop) ==
    LET out == Outcome(stop, "raise")
    IN  /\ backend = "B" /\ alive
        /\ texts = <<>> => stop = "done"
        /\ Fault(stop)
        /\ lastOp' = [NoCall EXCEPT !.op = "add", !.texts = texts,
                                    !.metadatas = metadatas, !.stop = stop,
                                    !.outcome = out, !.before = Len(table)]
        /\ table' = IF texts # <<>> /\ stop \in {"count", "done"}
                    THEN table \o PrepareData(texts, metadatas)
                    ELSE table
        /\ credited' = IF out = "ok" THEN credited + Len(texts) ELSE credited
        /\ UNCHANGED <<backend, conc, schema, folder, alive, index, documents,
                       metadata, disk, side>>

\* add_documents(texts, metadatas), called while the store has room
AddDocumentsB(texts, metadatas, stop) ==
    /\ Len(table) + Len(texts) <= MaxStore
    /\ credited + Len(texts) <= MaxStore
    /\ InsertB(texts, metadatas, stop)

\* clear(): TRUNCATE TABLE documents, committed
ClearB(stop) ==
    LET out == Outcome(stop, "raise")
    IN  /\ backend = "B" /\ alive
        /\ stop \in {"connect", "truncate", "done"}
        /\ Fault(stop)
        /\ lastOp' = [NoCall EXCEPT !.op = "clear", !.stop = stop,
                                    !.outcome = out, !.before = Len(table)]
        /\ table' = IF stop = "done" THEN <<>> ELSE table
        /\ credited' = IF out = "ok" THEN 0 ELSE credited
        /\ UNCHANGED <<backend, conc, schema, folder, alive, index, documents,
                       metadata, disk, side>>

\* search, lines 223-237: one result dict per fetched row
ResultB(rows, r, q) ==
    [a \in 1..Len(r) |->
        [text |-> rows[r[a]].content,
         metadata |-> MetadataOf(rows[r[a]]),
         similarity |-> [dot |-> Dot(rows[r[a]].embedding, q),
                         norms |-> Dot(rows[r[a]].embedding,
                                       rows[r[a]].embedding) * Dot(q, q)],
         pos |-> r[a]]]

\* What search(query, k, filters) can return on the rows.
SearchOutcomesB(rows, query, k, f, stop) ==
    IF stop # "done"
    THEN {[outcome |-> "raise", result |-> <<>>]}
    ELSE {[outcome |-> "ok", result |-> ResultB(rows, r, Embedding(query))]
          : r \in Select(rows, f, Embedding(query), k)}

SearchB(query, k, f, stop) ==
    /\ backend = "B" /\ alive
    /\ stop \in {"encode", "execute", "done"}
    /\ Fault(stop)
    /\ \E o \in SearchOutcomesB(table, query, k, f, stop) :
          lastOp' = [NoCall EXCEPT !.op = "search", !.query = query, !.k = k,
                                   !.filters = f, !.stop = stop,
                                   !.outcome = o.outcome, !.result = o.result,
                                   !.before = Len(table)]
    /\ UNCHANGED <<backend, conc, schema, folder, alive, index, documents,
                   metadata, disk, table, credited, side>>

\* get_stats(): the counts and the year range, computed by the queries of
\* lines 257-264
StatsB(rows) ==
    LET files == {rows[i].source_file[1] :
                    i \in {j \in 1..Len(rows) : rows[j].source_file # None}}
        years == {rows[i].date_year[1] :
                    i \in {j \in 1..Len(rows) : rows[j].date_year # None}}
        lo == CHOOSE y \in years : \A z \in years : y <= z
        hi == CHOOSE y \in years : \A z \in years : y >= z
    IN  [total_chunks |-> Len(rows),
         unique_files |-> Cardinality(files),
         dimension |-> Dim,
         year_range |-> IF years # {} /\ lo # 0 THEN Some(<<lo, hi>>) ELSE None]

GetStatsB(stop) ==
    /\ backend = "B" /\ alive
    /\ stop \in {"connect", "done"}
    /\ Fault(stop)
    /\ lastOp' = [NoCall EXCEPT !.op = "stats", !.stop = stop,
                                !.outcome = Outcome(stop, "raise"),
                                !.result = IF stop = "done"
                                           THEN StatsB(table) ELSE <<>>,
                                !.before = Len(table)]
    /\ UNCHANGED <<backend, conc, schema, folder, alive, index, documents,
                   metadata, disk, table, credited, side>>

\* A new process constructs the store: _init_database creates what does not
\* exist yet and leaves the rows alone.
RestartB(stop) ==
    LET r == init_database(schema)
        out == IF stop = "done" THEN r.outcome ELSE "raise"
    IN  /\ backend = "B"
        /\ stop \in {"connect", "done"}
        /\ Fault(stop)
        /\ lastOp' = [NoCall EXCEPT !.op = "init", !.stop = stop,
                                    !.outcome = out]
        /\ alive' = (out = "ok")
        /\ schema' = IF stop = "done" THEN r.schema ELSE schema
        /\ UNCHANGED <<backend, conc, folder, index, documents, metadata,
                       disk, table, credited, side>>

----------------------------------------------------------------------------
(* The specification *)

AddStopsA == {"encode"} \cup SaveStops

NextA ==
    \/ \E texts \in TextLists, metadatas \in MetadataArgs,
          stop \in AddStopsA, mode \in Modes :
          AddDocumentsA(texts, metadatas, stop, mode)
    \/ \E stop \in SaveStops, mode \in Modes : ClearA(stop, mode)
    \/ \E query \in Queries, k \in 0..MaxK, stop \in {"encode", "done"} :
          SearchA(query, k, stop)
    \/ \E query \in Queries, f \in FilterSet \ {NoFilter} :
          SearchFilteredA(query, MaxK, f)
    \/ GetStatsA
    \/ RestartA

NextB ==
    \/ \E texts \in TextLists, metadatas \in MetadataArgs, stop \in AddStopsB :
          AddDocumentsB(texts, metadatas, stop)
    \/ \E stop \in {"connect", "truncate", "done"} : ClearB(stop)
    \/ \E query \in Queries, k \in 0..MaxK, f \in FilterSet,
          stop \in {"encode", "execute", "done"} :
          SearchB(query, k, f, stop)
    \/ \E stop \in {"connect", "done"} : GetStatsB(stop)
    \/ \E stop \in {"connect", "done"} : RestartB(stop)

Next == NextA \/ NextB

\* Either backend.
Spec == Init /\ [][Next]_vars

\* The calls that run to their end: no failure, no crash.
NextCalls ==
    \/ \E texts \in TextLists, metadatas \in MetadataArgs :
          AddDocumentsA(texts, metadatas, "done", "raise")
    \/ ClearA("done", "raise")
    \/ \E query \in Queries, k \in 0..MaxK : SearchA(query, k, "done")
    \/ \E query \in Queries, f \in FilterSet \ {NoFilter} :
          SearchFilteredA(query, MaxK, f)
    \/ GetStatsA
    \/ RestartA
    \/ \E texts \in TextLists, metadatas \in MetadataArgs :
          AddDocumentsB(texts, metadatas, "done")
    \/ ClearB("done")
    \/ \E query \in Queries, k \in 0..MaxK, f \in FilterSet :
          SearchB(query, k, f, "done")
    \/ GetStatsB("done")
    \/ RestartB("done")

\* Either backend, every call running to its end.
SpecCalls == Init /\ [][NextCalls]_vars

\* Backend A alone.
SpecA == InitStore("A") /\ [][NextA]_vars

\* Backend B alone.
SpecB == InitStore("B") /\ [][NextB]_vars

\* Metadata with the years and places of historical records, and one with
\* neither.
Bendigo == <<"B", "e", "n", "d", "i", "g", "o">>
Ballarat == <<"B", "a", "l", "l", "a", "r", "a", "t">>
Melbourne == <<"M", "e", "l", "b", "o", "u", "r", "n", "e">>
PlaceMetas ==
    {[source_file |-> "a.pdf", date_year |-> 1850, location |-> Bendigo],
     [source_file |-> "a.pdf", date_year |-> 1900, location |-> Ballarat],
     [source_file |-> "a.pdf", date_year |-> 1950, location |-> Melbourne],
     MetaB}

\* Requests with a year range or a location.
PlaceFilters ==
    {[NoFilter EXCEPT !.date_year_range = Some(<<1860, 1950>>)],
     [NoFilter EXCEPT !.date_year_range = Some(<<1850, 1900>>)],
     [NoFilter EXCEPT !.location = Some(<<"b", "e", "n", "d">>)],
     [NoFilter EXCEPT !.location = Some(<<"B", "E", "N", "D">>)],
     [NoFilter EXCEPT !.location = Some(<<"_">>)]}

\* add_documents of one chunk with its metadata
AddRecordB(meta) ==
    /\ Len(table) < MaxRows
    /\ InsertB(<<"alpha beta">>, Some(<<meta>>), "done")

NextFilters ==
    \/ \E meta \in PlaceMetas : AddRecordB(meta)
    \/ \E f \in PlaceFilters : SearchB("alpha", MaxRows, f, "done")
    \/ ClearB("done")

\* Backend B, filtered searches over records with years and places.
SpecFilters == InitStore("B") /\ [][NextFilters]_vars

----------------------------------------------------------------------------
(* Backend A called from several threads. FastDocumentStore holds no lock, *)
(* so the statements of overlapping calls interleave; an action below is   *)
(* one statement of a call (the loop of search, lines 68-75, is one).      *)

\* The batches and the searches the threads pass.
ThreadBatches ==
    {[texts |-> <<"alpha beta">>, metadatas |-> Some(<<MetaA>>)],
     [texts |-> <<"gamma delta">>, metadatas |-> None]}

Running(t) == threads[t].pc \notin {"idle", "done"}

\* The texts of the add_documents calls that have begun and not returned.
RECURSIVE PendingTo(_)
PendingTo(n) ==
    IF n = 0 THEN 0
    ELSE (IF Running(n) /\ threads[n].op = "add"
          THEN Len(threads[n].texts) ELSE 0) + PendingTo(n - 1)

\* Thread t moves to rec; the variables no statement of a call writes stay.
Moves(t, rec) ==
    /\ threads' = [threads EXCEPT ![t] = rec]
    /\ UNCHANGED <<backend, alive, table, lastOp, credited, faults, schema,
                   folder, side>>

\* Thread t begins a call; base is the store the first call of a round of
\* overlapping calls finds.
Begins(t, rec) ==
    /\ alive
    /\ threads[t].pc = "idle"
    /\ Moves(t, rec)
    /\ base' = IF \A u \in Threads : threads[u].pc = "idle"
               THEN [store |-> CurrentA, disk |-> disk, table |-> table]
               ELSE base
    /\ UNCHANGED <<index, documents, metadata, disk>>

At(t, op, pc) ==
    backend = "A" /\ alive /\ threads[t].op = op /\ threads[t].pc = pc

BeginAddA(t, texts, metadatas) ==
    /\ backend = "A"
    /\ Largest(index.ntotal, Len(documents), Len(metadata))
          + PendingTo(MaxThreads) + Len(texts) <= MaxStore
    /\ Begins(t, [NoThread EXCEPT !.op = "add", !.pc = "encode",
                                  !.texts = texts, !.metadatas = metadatas])

BeginClearA(t) ==
    /\ backend = "A"
    /\ Begins(t, [NoThread EXCEPT !.op = "clear", !.pc = "index"])

BeginSearchA(t, query, k) ==
    /\ backend = "A"
    /\ Begins(t, [NoThread EXCEPT !.op = "search", !.pc = "ntotal",
                                  !.query = query, !.k = k])

\* add_documents, lines 30-39
AddEncodeA(t) ==
    /\ At(t, "add", "encode")
    /\ Moves(t, IF threads[t].texts = <<>>
                THEN [threads[t] EXCEPT !.pc = "done"]
                ELSE [threads[t] EXCEPT !.pc = "index",
                                        !.embeddings = encode(threads[t].texts)])
    /\ UNCHANGED <<index, documents, metadata, disk, base>>

\* add_documents, line 42
AddIndexA(t) ==
    /\ At(t, "add", "index")
    /\ Moves(t, [threads[t] EXCEPT !.pc = "documents"])
    /\ index' = index_add(index, threads[t].embeddings)
    /\ UNCHANGED <<documents, metadata, disk, base>>

\* add_documents, line 45
AddDocumentsStepA(t) ==
    /\ At(t, "add", "documents")
    /\ Moves(t, [threads[t] EXCEPT !.pc = "metadata"])
    /\ documents' = documents \o threads[t].texts
    /\ UNCHANGED <<index, metadata, disk, base>>

\* add_documents, lines 46-49
AddMetadataA(t) ==
    LET c == threads[t]
    IN  /\ At(t, "add", "metadata")
        /\ Moves(t, [c EXCEPT !.pc = "write_index"])
        /\ metadata' = metadata \o
              (IF c.metadatas # None /\ c.metadatas[1] # <<>>
               THEN c.metadatas[1]
               ELSE [i \in 1..Len(c.texts) |-> EmptyDict])
        /\ UNCHANGED <<index, documents, disk, base>>

\* clear, line 105
ClearIndexA(t) ==
    /\ At(t, "clear", "index")
    /\ Moves(t, [threads[t] EXCEPT !.pc = "documents"])
    /\ index' = IndexFlatL2(Dim)
    /\ UNCHANGED <<documents, metadata, disk, base>>

\* clear, line 106
ClearDocumentsA(t) ==
    /\ At(t, "clear", "documents")
    /\ Moves(t, [threads[t] EXCEPT !.pc = "metadata"])
    /\ documents' = <<>>
    /\ UNCHANGED <<index, metadata, disk, base>>

\* clear, line 107
ClearMetadataA(t) ==
    /\ At(t, "clear", "metadata")
    /\ Moves(t, [threads[t] EXCEPT !.pc = "write_index"])
    /\ metadata' = <<>>
    /\ UNCHANGED <<index, documents, disk, base>>

\* save, line 80, called at line 51 or 108: the index as it is now
SaveIndexA(t) ==
    /\ backend = "A" /\ alive
    /\ threads[t].pc = "write_index"
    /\ Moves(t, [threads[t] EXCEPT !.pc = "dump"])
    /\ disk' = [disk EXCEPT !.index = File(write_index(index))]
    /\ UNCHANGED <<index, documents, metadata, base>>

\* save, lines 81-85: the lists as they are now
SaveDocsA(t) ==
    /\ backend = "A" /\ alive
    /\ threads[t].pc = "dump"
    /\ Moves(t, [threads[t] EXCEPT !.pc = "done"])
    /\ disk' = [disk EXCEPT !.docs = File(pickle_dump([docs |-> documents,
                                                       meta |-> metadata]))]
    /\ UNCHANGED <<index, documents, metadata, base>>

\* search, lines 56-59
SearchNtotalA(t) ==
    /\ At(t, "search", "ntotal")
    /\ Moves(t, IF index.ntotal = 0
                THEN [threads[t] EXCEPT !.pc = "done"]
                ELSE [threads[t] EXCEPT !.pc = "search"])
    /\ UNCHANGED <<index, documents, metadata, disk, base>>

\* search, lines 62-65: min(k, ntotal) and index.search on the index as it
\* is now
SearchIndexA(t) ==
    LET c == threads[t]
        kk == Min(c.k, index.ntotal)
    IN  /\ At(t, "search", "search")
        /\ \/ /\ kk = 0
              /\ Moves(t, [c EXCEPT !.pc = "done", !.outcome = "raise"])
           \/ \E r \in IndexSearch(index, Embedding(c.query), kk) :
                 Moves(t, [c EXCEPT !.pc = "results", !.ix = index, !.r = r])
        /\ UNCHANGED <<index, documents, metadata, disk, base>>

\* search, lines 67-76: the loop reads documents and metadata as they are now
SearchResultsA(t) ==
    LET c == threads[t]
    IN  /\ At(t, "search", "results")
        /\ Moves(t, IF HitsRaise(c.r, CurrentA)
                    THEN [c EXCEPT !.pc = "done", !.outcome = "raise"]
                    ELSE [c EXCEPT !.pc = "done",
                                   !.result = Hits(c.r, c.ix,
                                                   Embedding(c.query),
                                                   CurrentA)])
        /\ UNCHANGED <<index, documents, metadata, disk, base>>

\* Every call has returned: the threads are free for the next calls.
Join ==
    /\ \A t \in Threads : ~Running(t)
    /\ \E t \in Threads : threads[t].pc = "done"
    /\ threads' = [t \in Threads |-> NoThread]
    /\ UNCHANGED <<backend, alive, index, documents, metadata, disk, table,
                   lastOp, credited, faults, base, schema, folder, side>>

NextThreads ==
    \/ \E t \in Threads, b \in ThreadBatches :
          BeginAddA(t, b.texts, b.metadatas)
    \/ \E t \in Threads : BeginClearA(t)
    \/ \E t \in Threads, k \in 1..MaxK : BeginSearchA(t, "alpha", k)
    \/ \E t \in Threads : AddEncodeA(t)
    \/ \E t \in Threads : AddIndexA(t)
    \/ \E t \in Threads : AddDocumentsStepA(t)
    \/ \E t \in Threads : AddMetadataA(t)
    \/ \E t \in Threads : ClearIndexA(t)
    \/ \E t \in Threads : ClearDocumentsA(t)
    \/ \E t \in Threads : ClearMetadataA(t)
    \/ \E t \in Threads : SaveIndexA(t)
    \/ \E t \in Threads : SaveDocsA(t)
    \/ \E t \in Threads : SearchNtotalA(t)
    \/ \E t \in Threads : SearchIndexA(t)
    \/ \E t \in Threads : SearchResultsA(t)
    \/ Join

\* Backend A, the calls of the threads interleaved statement by statement.
SpecThreads == InitStore("A") /\ [][NextThreads]_vars

----------------------------------------------------------------------------
(* Backend B called from several threads (or processes): each add_documents *)
(* call has its own connection and transaction; a search is one SELECT,     *)
(* which reads the committed rows.                                          *)

TxnBatches ==
    ThreadBatches \cup
    {[texts |-> <<"alpha beta", "gamma delta">>,
      metadatas |-> Some(<<MetaA, MetaB>>)]}

AtB(t, op, pc) ==
    backend = "B" /\ alive /\ threads[t].op = op /\ threads[t].pc = pc

\* _get_connection(), line 27: psycopg2.connect opens a connection
get_connection(c) == [c EXCEPT !.open = @ + 1]

\* conn.close()
conn_close(c) == [c EXCEPT !.open = @ - 1]

\* Thread t moves to rec in a statement that leaves the table as it is.
MovesB(t, rec) ==
    /\ Moves(t, rec)
    /\ UNCHANGED <<index, documents, metadata, disk, base>>

BeginAddB(t, texts, metadatas) ==
    /\ backend = "B"
    /\ Len(table) + PendingTo(MaxThreads) + Len(texts) <= MaxStore
    /\ Begins(t, [NoThread EXCEPT !.op = "add", !.pc = "encode",
                                  !.texts = texts, !.metadatas = metadatas])

BeginSearchB(t, query, k) ==
    /\ backend = "B"
    /\ Begins(t, [NoThread EXCEPT !.op = "search", !.pc = "select",
                                  !.query = query, !.k = k])

\* add_documents, lines 91-117: the early return, the embeddings, the data
AddEncodeB(t) ==
    /\ AtB(t, "add", "encode")
    /\ MovesB(t, IF threads[t].texts = <<>>
                 THEN [threads[t] EXCEPT !.pc = "done"]
                 ELSE [threads[t] EXCEPT !.pc = "connect",
                                         !.embeddings = encode(threads[t].texts)])

\* add_documents, line 119
AddConnectB(t) ==
    /\ AtB(t, "add", "connect")
    /\ MovesB(t, get_connection([threads[t] EXCEPT !.pc = "insert"]))

\* INSERT that is committed row by row (autocommit).
InsertRowB_Autocommit(t) ==
    LET c == threads[t]
        data == PrepareData(c.texts, c.metadatas)
        row == data[Len(c.staged) + 1]
    IN  /\ AtB(t, "add", "insert")
        /\ threads' = [threads EXCEPT ![t] =
              [c EXCEPT !.staged = @ \o <<row>>,
                        !.pc = IF Len(c.staged) + 1 = Len(data)
                               THEN "commit" ELSE "insert"]]
        /\ table' = table \o <<row>>
        /\ UNCHANGED <<backend, alive, lastOp, credited, faults, schema,
                       folder, index, documents, metadata, disk, base, side>>

\* add_documents, lines 121-130: execute_values writes the next row of data
\* in the call's transaction.
InsertRowB(t) ==
    LET c == threads[t]
        data == PrepareData(c.texts, c.metadatas)
        row == data[Len(c.staged) + 1]
    IN  /\ AtB(t, "add", "insert")
        /\ MovesB(t, [c EXCEPT !.staged = @ \o <<row>>,
                               !.pc = IF Len(c.staged) + 1 = Len(data)
                                      THEN "commit" ELSE "insert"])

\* add_documents, line 131: conn.commit() puts the written rows in the table
CommitB(t) ==
    /\ AtB(t, "add", "commit")
    /\ threads' = [threads EXCEPT ![t] = [@ EXCEPT !.pc = "count"]]
    /\ table' = table \o threads[t].staged
    /\ UNCHANGED <<backend, alive, lastOp, credited, faults, schema, folder,
                   index, documents, metadata, disk, base, side>>

\* add_documents, lines 133-135: the count that is printed, made by
\* _count_documents on a connection of its own (lines 81-87), and the
\* finally that closes the connection of the call
CountB(t) ==
    /\ AtB(t, "add", "count")
    /\ MovesB(t, conn_close(conn_close(get_connection(
                    [threads[t] EXCEPT !.pc = "done"]))))

\* add_documents whose conn.close() is the last statement of the try block,
\* not a finally: a call that raises leaves its connection open.
FailB_NoFinally(t) ==
    /\ backend = "B" /\ alive
    /\ threads[t].op = "add"
    /\ threads[t].pc \in {"encode", "connect", "insert", "count"}
    /\ threads[t].texts # <<>>
    /\ faults < MaxFaults
    /\ faults' = faults + 1
    /\ threads' = [threads EXCEPT ![t] =
          [@ EXCEPT !.pc = "done", !.stop = threads[t].pc,
                    !.outcome = "raise"]]
    /\ UNCHANGED <<backend, alive, table, lastOp, credited, schema, folder,
                   index, documents, metadata, disk, base, side>>

\* add_documents raises at the statement it is at (the embedding call, the
\* connection, the INSERT after any number of rows, the count): line 135
\* closes the connection, and what it has not committed is gone. A commit
\* that raises has either not happened (as a failure of the INSERT) or has
\* (as a failure of the count).
FailB(t) ==
    LET c == [threads[t] EXCEPT !.pc = "done", !.stop = threads[t].pc,
                                !.outcome = "raise"]
    IN  /\ backend = "B" /\ alive
        /\ threads[t].op = "add"
        /\ threads[t].pc \in {"encode", "connect", "insert", "count"}
        /\ threads[t].texts # <<>>
        /\ faults < MaxFaults
        /\ faults' = faults + 1
        /\ threads' = [threads EXCEPT ![t] =
              IF threads[t].pc \in {"insert", "count"} THEN conn_close(c)
              ELSE c]
        /\ UNCHANGED <<backend, alive, table, lastOp, credited, schema, folder,
                       index, documents, metadata, disk, base, side>>

\* search, lines 137-239: the SELECT over the committed rows
SelectB(t) ==
    LET c == threads[t]
    IN  /\ AtB(t, "search", "select")
        /\ \E o \in SearchOutcomesB(table, c.query, c.k, NoFilter, "done") :
              MovesB(t, conn_close(get_connection(
                           [c EXCEPT !.pc = "done", !.outcome = o.outcome,
                                     !.result = o.result])))

\* clear(), called while no other call runs
ClearIdleB ==
    /\ \A t \in Threads : threads[t].pc = "idle"
    /\ table # <<>>
    /\ ClearB("done")

NextTxn ==
    \/ \E t \in Threads, b \in TxnBatches : BeginAddB(t, b.texts, b.metadatas)
    \/ \E t \in Threads : BeginSearchB(t, "alpha", MaxStore)
    \/ \E t \in Threads : AddEncodeB(t)
    \/ \E t \in Threads : AddConnectB(t)
    \/ \E t \in Threads : InsertRowB(t)
    \/ \E t \in Threads : CommitB(t)
    \/ \E t \in Threads : CountB(t)
    \/ \E t \in Threads : FailB(t)
    \/ \E t \in Threads : SelectB(t)
    \/ Join
    \/ ClearIdleB

\* Backend B, the calls of the threads interleaved statement by statement.
SpecTxn == InitStore("B") /\ [][NextTxn]_vars

\* The calls that are one statement block on a connection of their own:
\* _init_database (lines 29-77), _count_documents (79-87), clear (241-250)
\* and get_stats (252-273).
PlainOps == {"init", "count", "clear", "stats"}

BeginOpB(t, op) ==
    /\ backend = "B"
    /\ Begins(t, [NoThread EXCEPT !.op = op, !.pc = "connect"])

\* conn = self._get_connection(), the statement before the try
OpConnectB(t) ==
    /\ backend = "B" /\ alive
    /\ threads[t].op \in PlainOps /\ threads[t].pc = "connect"
    /\ MovesB(t, get_connection([threads[t] EXCEPT !.pc = "execute"]))

\* The statements of the try block, and the finally that closes the
\* connection: the schema is created and committed, the rows are counted,
\* the table is truncated and the truncation committed, or the statistics
\* are read.
OpExecuteB(t) ==
    LET c == threads[t]
        r == init_database(schema)
        rec == [c EXCEPT !.pc = "done",
                         !.outcome = IF c.op = "init" /\ r.outcome # "ok"
                                     THEN "raise" ELSE "ok",
                         !.result = CASE c.op = "count" -> Len(table)
                                      [] c.op = "stats" -> StatsB(table)
                                      [] OTHER -> <<>>]
    IN  /\ backend = "B" /\ alive
        /\ c.op \in PlainOps /\ c.pc = "execute"
        /\ threads' = [threads EXCEPT ![t] = conn_close(rec)]
        /\ table' = IF c.op = "clear" THEN <<>> ELSE table
        /\ schema' = IF c.op = "init" THEN r.schema ELSE schema
        /\ UNCHANGED <<backend, alive, lastOp, credited, faults, folder,
                       index, documents, metadata, disk, base, side>>

\* One of those calls, or a search, raises: at psycopg2.connect (no
\* connection was opened) or at a statement of its try block (the finally
\* closes the connection); a search also at the embedding of its query.
OpFailB(t) ==
    LET c == [threads[t] EXCEPT !.pc = "done", !.stop = threads[t].pc,
                                !.outcome = "raise"]
    IN  /\ backend = "B" /\ alive
        /\ \/ threads[t].op \in PlainOps
              /\ threads[t].pc \in {"connect", "execute"}
           \/ threads[t].op = "search" /\ threads[t].pc = "select"
        /\ faults < MaxFaults
        /\ faults' = faults + 1
        /\ threads' = [threads EXCEPT ![t] =
              IF threads[t].pc = "execute" THEN conn_close(c) ELSE c]
        /\ UNCHANGED <<backend, alive, table, lastOp, credited, schema,
                       folder, index, documents, metadata, disk, base, side>>

NextConn ==
    \/ \E t \in Threads, b \in TxnBatches : BeginAddB(t, b.texts, b.metadatas)
    \/ \E t \in Threads : BeginSearchB(t, "alpha", MaxStore)
    \/ \E t \in Threads, op \in PlainOps : BeginOpB(t, op)
    \/ \E t \in Threads : AddEncodeB(t)
    \/ \E t \in Threads : AddConnectB(t)
    \/ \E t \in Threads : InsertRowB(t)
    \/ \E t \in Threads : CommitB(t)
    \/ \E t \in Threads : CountB(t)
    \/ \E t \in Threads : FailB(t)
    \/ \E t \in Threads : SelectB(t)
    \/ \E t \in Threads : OpConnectB(t)
    \/ \E t \in Threads : OpExecuteB(t)
    \/ \E t \in Threads : OpFailB(t)
    \/ Join

\* Backend B, every operation of the store called from the threads, each
\* with the connections it opens and closes.
SpecConn == InitStore("B") /\ [][NextConn]_vars

----------------------------------------------------------------------------
(* Folder ingestion: the index_documents tool of src/src/server.py on      *)
(* Backend A and the script src/index_documents_pg.py on Backend B.        *)

\* The files a documents folder may hold. chunks is what extraction and
\* chunking make of the file's content: the chunk texts, or None where
\* process_file raises (a malformed file).
DocFiles ==
    {[name |-> "a.pdf", type |-> ".pdf",
      path |-> "/app/data/documents/a.pdf",
      chunks |-> Some(<<"alpha beta", "gamma delta">>)],
     [name |-> "b.docx", type |-> ".docx",
      path |-> "/app/data/documents/b.docx",
      chunks |-> Some(<<"gamma delta">>)],
     [name |-> "c.pdf", type |-> ".pdf",
      path |-> "/app/data/documents/c.pdf",
      chunks |-> None]}

\* list(glob("*.pdf")) + list(glob("*.docx")): the PDF files in the order
\* the directory lists them, then the DOCX files.
Glob(dir) ==
    {o \in [1..Cardinality(dir) -> dir] :
        /\ \A i, j \in 1..Cardinality(dir) : i # j => o[i] # o[j]
        /\ \A i, j \in 1..Cardinality(dir) :
              (o[i].type = ".pdf" /\ o[j].type = ".docx") => i < j}

\* process_and_chunk(file): the chunks, each with the metadata of lines
\* 68-72 and its chunk_index (chunk_text, lines 56-58).
ProcessAndChunk(file) ==
    IF file.chunks = None
    THEN [outcome |-> "raise", chunks |-> <<>>, metadatas |-> <<>>]
    ELSE [outcome |-> "ok",
          chunks |-> file.chunks[1],
          metadatas |-> [i \in 1..Len(file.chunks[1]) |->
                            [source |-> file.name, type |-> file.type,
                             path |-> file.path, chunk_index |-> i - 1]]]

\* server.py, lines 165-177: the chunks and the metadata of the files that
\* process, in the order of files; a file that raises is skipped.
RECURSIVE Gather(_)
Gather(files) ==
    IF files = <<>> THEN [chunks |-> <<>>, metadatas |-> <<>>, errors |-> <<>>]
    ELSE LET p == ProcessAndChunk(Head(files))
             rest == Gather(Tail(files))
         IN  IF p.outcome = "ok"
             THEN [chunks |-> p.chunks \o rest.chunks,
                   metadatas |-> p.metadatas \o rest.metadatas,
                   errors |-> rest.errors]
             ELSE [rest EXCEPT !.errors = <<Head(files).name>> \o @]

\* A file appears in the folder, or is removed from it.
PutFile(file) ==
    /\ file \notin folder
    /\ folder' = folder \cup {file}
    /\ UNCHANGED <<backend, alive, index, documents, metadata, disk, table,
                   lastOp, credited, faults, conc, schema, side>>

RemoveFile(file) ==
    /\ file \in folder
    /\ folder' = folder \ {file}
    /\ UNCHANGED <<backend, alive, index, documents, metadata, disk, table,
                   lastOp, credited, faults, conc, schema, side>>

\* The store the index_documents tool leaves: the store s cleared when
\* reindex is set, then extended by the gathered chunks when there are any.
Indexed(s, reindex, files) ==
    LET s0 == IF reindex THEN EmptyStore ELSE s
        g == Gather(files)
    IN  IF g.chunks = <<>> THEN s0
        ELSE Extend(s0, g.chunks, Some(g.metadatas))

\* The index_documents tool without the clear of lines 153-154.
IndexDocumentsServer_NoClear(reindex) ==
    \E files \in Glob(folder) :
        LET g == Gather(files)
            s1 == Indexed(CurrentA, FALSE, files)
        IN  /\ backend = "A" /\ alive
            /\ Len(s1.documents) <= MaxIngest
            /\ lastOp' = [NoCall EXCEPT
                  !.op = "index", !.reindex = reindex, !.files = files,
                  !.before = Len(documents),
                  !.result = IF files = <<>> THEN <<>>
                             ELSE [files |-> Len(files),
                                   total_chunks |-> StatsA(s1).total_chunks,
                                   errors |-> g.errors]]
            /\ SetStoreA(s1)
            /\ disk' = IF g.chunks # <<>> THEN save(disk, s1, "done") ELSE disk
            /\ credited' = credited + Len(g.chunks)
            /\ UNCHANGED <<backend, alive, table, faults, conc, schema,
                           folder, side>>

\* The index_documents tool, server.py lines 150-189: clear() when reindex
\* is set; the message of lines 159-163 when the folder has no PDF or DOCX
\* file; else every file processed, one add_documents call with the chunks
\* of all of them when there are any, and the total of get_stats.
IndexDocumentsServer(reindex) ==
    \E files \in Glob(folder) :
        LET g == Gather(files)
            s1 == Indexed(CurrentA, reindex, files)
        IN  /\ backend = "A" /\ alive
            /\ Len(s1.documents) <= MaxIngest
            /\ lastOp' = [NoCall EXCEPT
                  !.op = "index", !.reindex = reindex, !.files = files,
                  !.before = Len(documents),
                  !.result = IF files = <<>> THEN <<>>
                             ELSE [files |-> Len(files),
                                   total_chunks |-> StatsA(s1).total_chunks,
                                   errors |-> g.errors]]
            /\ SetStoreA(s1)
            /\ disk' = IF reindex \/ g.chunks # <<>>
                       THEN save(disk, s1, "done") ELSE disk
            /\ credited' = (IF reindex THEN 0 ELSE credited) + Len(g.chunks)
            /\ UNCHANGED <<backend, alive, table, faults, conc, schema,
                           folder, side>>

\* index_documents(reindex) of index_documents_pg.py, lines 44-155: a store
\* is constructed, the table is cleared when reindex is set, and the run
\* returns when the folder has no PDF or DOCX file (lines 68-70). With files
\* it calls doc_store.get_indexed_files() at line 72, a method
\* PgVectorDocumentStore does not have: AttributeError, which ends the run
\* (exit code 1, lines 164-169) before any file is processed.
IndexDocumentsPg(reindex) ==
    \E files \in Glob(folder) :
        LET r == init_database(schema)
        IN  /\ backend = "B"
            /\ r.outcome = "ok"
            /\ schema' = r.schema
            /\ lastOp' = [NoCall EXCEPT
                  !.op = "index", !.reindex = reindex, !.files = files,
                  !.before = Len(table),
                  !.stop = IF files = <<>> THEN "done" ELSE "get_indexed_files",
                  !.outcome = IF files = <<>> THEN "ok" ELSE "raise"]
            /\ table' = IF reindex THEN <<>> ELSE table
            /\ credited' = IF reindex THEN 0 ELSE credited
            /\ UNCHANGED <<backend, alive, index, documents, metadata, disk,
                           faults, conc, folder, side>>

NextIngest ==
    \/ \E file \in DocFiles : PutFile(file)
    \/ \E file \in DocFiles : RemoveFile(file)
    \/ \E reindex \in BOOLEAN : IndexDocumentsServer(reindex)
    \/ \E reindex \in BOOLEAN : IndexDocumentsPg(reindex)
    \/ \E query \in Queries, k \in 0..MaxK : SearchA(query, k, "done")
    \/ GetStatsA
    \/ ClearA("done", "raise")

\* Either backend, with the ingestion runs over a folder that changes.
SpecIngest == Init /\ [][NextIngest]_vars

----------------------------------------------------------------------------
(* DocumentProcessor.chunk_text. A text is a sequence of characters.       *)

\* Characters of the texts: two letters and two that \s matches.
Whitespace == {" ", "\t"}
Alphabet == {"a", "b"} \cup Whitespace

\* The text without its leading whitespace.
RECURSIVE lstrip(_)
lstrip(text) ==
    IF text # <<>> /\ Head(text) \in Whitespace THEN lstrip(Tail(text))
    ELSE text

RECURSIVE rstrip(_)
rstrip(text) ==
    IF text # <<>> /\ text[Len(text)] \in Whitespace
    THEN rstrip(SubSeq(text, 1, Len(text) - 1))
    ELSE text

\* str.strip()
strip(text) == rstrip(lstrip(text))

\* re.sub(r'\s+', ' ', text): every run of whitespace becomes one space
RECURSIVE re_sub(_)
re_sub(text) ==
    IF text = <<>> THEN <<>>
    ELSE IF Head(text) \in Whitespace
         THEN <<" ">> \o re_sub(lstrip(text))
         ELSE <<Head(text)>> \o re_sub(Tail(text))

\* The characters of text before its first whitespace.
RECURSIVE Word(_)
Word(text) ==
    IF text = <<>> \/ Head(text) \in Whitespace THEN <<>>
    ELSE <<Head(text)>> \o Word(Tail(text))

\* str.split(): the words between the runs of whitespace
RECURSIVE split(_)
split(text) ==
    LET t == lstrip(text)
        w == Word(t)
    IN  IF t = <<>> THEN <<>>
        ELSE <<w>> \o split(SubSeq(t, Len(w) + 1, Len(t)))

\* ' '.join(words)
RECURSIVE join(_)
join(words) ==
    IF words = <<>> THEN <<>>
    ELSE IF Len(words) = 1 THEN words[1]
    ELSE words[1] \o <<" ">> \o join(Tail(words))

\* words[i:j - 1]: the window without its last word.
Slice_DropsLast(words, i, j) ==
    SubSeq(words, i + 1, Min(j, Len(words)) - 1)

\* words[i:j], positions counted from 0
Slice(words, i, j) == SubSeq(words, i + 1, Min(j, Len(words)))

\* The dicts a call of chunk_text works on are objects: heap holds them, an
\* address is a position of heap. The dict the caller passed as metadata, if
\* any, is the object at address 1.

\* chunk_meta = metadata: the caller's dict itself, no copy.
copy_Alias(heap, addr) == [heap |-> heap, addr |-> addr]

\* dict.copy(): a new dict with the items of the dict at addr
copy(heap, addr) ==
    [heap |-> Append(heap, heap[addr]), addr |-> Len(heap) + 1]

\* {}: a new dict without items
NewDict(heap) == [heap |-> Append(heap, EmptyDict), addr |-> Len(heap) + 1]

\* d[key] = value, d the dict at addr
SetItem(heap, addr, key, value) ==
    [heap EXCEPT ![addr] = [k \in DOMAIN heap[addr] \cup {key} |->
                              IF k = key THEN value ELSE heap[addr][k]]]

\* The lists of the call before, kept: chunks and metadatas are not local.
Locals_Kept(meta) ==
    IF lastOp.op = "chunk" /\ lastOp.outcome = "ok" /\ meta = lastOp.metadatas
    THEN [chunks |-> lastOp.result.chunks, refs |-> lastOp.result.refs,
          heap |-> lastOp.result.heap]
    ELSE [chunks |-> <<>>, refs |-> <<>>,
          heap |-> IF meta # None THEN <<meta[1]>> ELSE <<>>]

\* chunk_text, lines 49-50: chunks = [] and metadatas = [] (refs, the
\* addresses of its dicts), and the objects that exist when the call begins.
Locals(meta) ==
    [chunks |-> <<>>, refs |-> <<>>,
     heap |-> IF meta # None THEN <<meta[1]>> ELSE <<>>]

\* chunk_text, lines 52-58: the loop from offset i on, acc being the lists
\* made so far.
RECURSIVE ChunkLoop(_, _, _, _, _, _)
ChunkLoop(words, i, chunk_size, step, meta, acc) ==
    IF i >= Len(words) THEN acc
    ELSE LET chunk == join(Slice(words, i, i + chunk_size))
             chunk_meta == IF meta # None THEN copy(acc.heap, 1)
                           ELSE NewDict(acc.heap)
             indexed == SetItem(chunk_meta.heap, chunk_meta.addr,
                                "chunk_index", Len(acc.chunks))
         IN  ChunkLoop(words, i + step, chunk_size, step, meta,
                       IF strip(chunk) # <<>>
                       THEN [chunks |-> acc.chunks \o <<chunk>>,
                             refs |-> acc.refs \o <<chunk_meta.addr>>,
                             heap |-> indexed]
                       ELSE acc)

\* chunk_text, lines 45 and 60: the two lists returned, metadatas as the
\* dicts its addresses hold when the call returns; refs and heap say which
\* objects they are.
ReturnValue(acc) ==
    [chunks |-> acc.chunks,
     metadatas |-> [j \in 1..Len(acc.refs) |-> acc.heap[acc.refs[j]]],
     refs |-> acc.refs, heap |-> acc.heap]

\* chunk_text whose windows do not overlap: the step is chunk_size.
chunk_text_NoOverlap(text, chunk_size, chunk_overlap, meta) ==
    LET cleaned == strip(re_sub(text))
        none == ReturnValue(Locals(meta))
    IN  IF cleaned = <<>> THEN [outcome |-> "ok", result |-> none]
        ELSE [outcome |-> "ok",
              result |-> ReturnValue(ChunkLoop(split(cleaned), 0, chunk_size,
                                               chunk_size, meta,
                                               Locals(meta)))]

\* chunk_text that raises ValueError for a text without a token.
chunk_text_EmptyRaises(text, chunk_size, chunk_overlap, meta) ==
    LET cleaned == strip(re_sub(text))
        step == chunk_size - chunk_overlap
        none == ReturnValue(Locals(meta))
    IN  IF cleaned = <<>> THEN [outcome |-> "raise", result |-> none]
        ELSE IF step = 0 THEN [outcome |-> "raise", result |-> none]
        ELSE IF step < 0 THEN [outcome |-> "ok", result |-> none]
        ELSE [outcome |-> "ok",
              result |-> ReturnValue(ChunkLoop(split(cleaned), 0, chunk_size,
                                               step, meta, Locals(meta)))]

\* chunk_text(text, metadata) of a DocumentProcessor(chunk_size,
\* chunk_overlap). range() raises ValueError for a step of 0 and is empty
\* for a negative step.
chunk_text(text, chunk_size, chunk_overlap, meta) ==
    LET cleaned == strip(re_sub(text))
        step == chunk_size - chunk_overlap
        none == ReturnValue(Locals(meta))
    IN  IF cleaned = <<>> THEN [outcome |-> "ok", result |-> none]
        ELSE IF step = 0 THEN [outcome |-> "raise", result |-> none]
        ELSE IF step < 0 THEN [outcome |-> "ok", result |-> none]
        ELSE [outcome |-> "ok",
              result |-> ReturnValue(ChunkLoop(split(cleaned), 0, chunk_size,
                                               step, meta, Locals(meta)))]

\* A DocumentProcessor(chunk_size, chunk_overlap) and the arguments of one
\* call of chunk_text: a text and the metadata (None, or a dict).
InitChunker ==
    /\ backend = "A"
    /\ alive = TRUE
    /\ index = IndexFlatL2(Dim)
    /\ documents = <<>>
    /\ metadata = <<>>
    /\ disk = NoFiles
    /\ table = <<>>
    /\ credited = 0
    /\ faults = 0
    /\ threads = [t \in Threads |-> NoThread]
    /\ base = NoBase
    /\ schema = {}
    /\ folder = {}
    /\ calls = <<>>
    /\ geocode_cache = EmptyDict
    /\ geocoder = NoLookups
    /\ \E text \in SeqsUpTo(Alphabet, MaxText), chunk_size \in 1..MaxChunk,
          chunk_overlap \in 0..MaxChunk,
          meta \in {None, Some([source |-> "a.pdf"])} :
          lastOp = [NoCall EXCEPT !.op = "text", !.text = text,
                                  !.chunk_size = chunk_size,
                                  !.chunk_overlap = chunk_overlap,
                                  !.metadatas = meta]

\* chunk_text(text, metadata) is called.
ChunkText ==
    LET c == chunk_text(lastOp.text, lastOp.chunk_size, lastOp.chunk_overlap,
                        lastOp.metadatas)
    IN  /\ lastOp.op = "text"
        /\ lastOp' = [lastOp EXCEPT !.op = "chunk", !.outcome = c.outcome,
                                    !.result = c.result]
        /\ UNCHANGED <<backend, alive, index, documents, metadata, disk,
                       table, credited, faults, conc, schema, folder, side>>

\* chunk_text applied to every text, chunk_size and chunk_overlap of the
\* bounds.
SpecChunker == InitChunker /\ [][ChunkText]_vars

\* The texts and the metadata one DocumentProcessor is called with,
\* call after call.
ProcessorTexts ==
    {<<>>, <<"a">>, <<"a", " ", "b">>, <<"b", "\t", "a", " ", "b">>}
ProcessorMetas == {None, Some([source |-> "a.pdf"])}

\* A DocumentProcessor(chunk_size, chunk_overlap) that has answered no call.
InitProcessor ==
    /\ backend = "A"
    /\ alive = TRUE
    /\ index = IndexFlatL2(Dim)
    /\ documents = <<>>
    /\ metadata = <<>>
    /\ disk = NoFiles
    /\ table = <<>>
    /\ credited = 0
    /\ faults = 0
    /\ threads = [t \in Threads |-> NoThread]
    /\ base = NoBase
    /\ schema = {}
    /\ folder = {}
    /\ calls = <<>>
    /\ geocode_cache = EmptyDict
    /\ geocoder = NoLookups
    /\ \E chunk_size \in 1..MaxChunk, chunk_overlap \in 0..MaxChunk :
          lastOp = [NoCall EXCEPT !.op = "processor",
                                  !.chunk_size = chunk_size,
                                  !.chunk_overlap = chunk_overlap]

\* chunk_text(text, metadata) is called on the processor; self.chunk_size
\* and self.chunk_overlap are read, nothing of the processor is written.
ChunkTextCall(text, meta) ==
    LET c == chunk_text(text, lastOp.chunk_size, lastOp.chunk_overlap, meta)
    IN  /\ lastOp.op \in {"processor", "chunk"}
        /\ Len(calls) < MaxCalls
        /\ lastOp' = [lastOp EXCEPT !.op = "chunk", !.text = text,
                                    !.metadatas = meta,
                                    !.outcome = c.outcome,
                                    !.result = c.result]
        /\ calls' = Append(calls, [text |-> text, metadata |-> meta,
                                   outcome |-> c.outcome,
                                   chunks |-> c.result.chunks,
                                   metadatas |-> c.result.metadatas])
        /\ UNCHANGED <<backend, alive, index, documents, metadata, disk,
                       table, credited, faults, conc, schema, folder,
                       geocode_cache, geocoder>>

NextProcessor ==
    \E text \in ProcessorTexts, meta \in ProcessorMetas :
       ChunkTextCall(text, meta)

\* One DocumentProcessor called up to MaxCalls times.
SpecProcessor == InitProcessor /\ [][NextProcessor]_vars

----------------------------------------------------------------------------
(* GeoTools.cardinal_to_bearing. A direction is a sequence of characters.  *)

\* str.lower()
lower(str) == [i \in 1..Len(str) |-> Lower(str[i])]

\* The dict directions of lines 95-104, as its items.
directions ==
    {
     [key |-> <<"n">>, value |-> 0],
     [key |-> <<"n", "o", "r", "t", "h">>, value |-> 0],
     [key |-> <<"n", "e">>, value |-> 45],
     [key |-> <<"n", "o", "r", "t", "h", "e", "a", "s", "t">>, value |-> 45],
     [key |-> <<"e">>, value |-> 90],
     [key |-> <<"e", "a", "s", "t">>, value |-> 90],
     [key |-> <<"s", "e">>, value |-> 135],
     [key |-> <<"s", "o", "u", "t", "h", "e", "a", "s", "t">>, value |-> 135],
     [key |-> <<"s">>, value |-> 180],
     [key |-> <<"s", "o", "u", "t", "h">>, value |-> 180],
     [key |-> <<"s", "w">>, value |-> 225],
     [key |-> <<"s", "o", "u", "t", "h", "w", "e", "s", "t">>, value |-> 225],
     [key |-> <<"w">>, value |-> 270],
     [key |-> <<"w", "e", "s", "t">>, value |-> 270],
     [key |-> <<"n", "w">>, value |-> 315],
     [key |-> <<"n", "o", "r", "t", "h", "w", "e", "s", "t">>, value |-> 315]}

\* dict.get(key, default) on a dict given as its items
dict_get(items, key, default) ==
    IF \E it \in items : it.key = key
    THEN (CHOOSE it \in items : it.key = key).value
    ELSE default

\* cardinal_to_bearing without strip(): the direction is only lowered.
cardinal_to_bearing_NoStrip(direction) ==
    dict_get(directions, lower(direction), 0)

\* cardinal_to_bearing(direction), lines 92-106
cardinal_to_bearing(direction) ==
    dict_get(directions, strip(lower(direction)), 0)

Upper(c) ==
    IF \E i \in 1..Len(LowerCase) : LowerCase[i] = c
    THEN UpperCase[CHOOSE i \in 1..Len(LowerCase) : LowerCase[i] = c]
    ELSE c

\* A word as typed, in capitals, and with a capital first letter.
Casings(w) ==
    {w, [i \in 1..Len(w) |-> Upper(w[i])],
     [i \in 1..Len(w) |-> IF i = 1 THEN Upper(w[i]) ELSE w[i]]}

\* The whitespace around a direction.
Paddings == {<<>>, <<" ">>, <<"\t", " ">>}

\* The directions passed: the names of the dict and some other words (one
\* with whitespace inside), in three casings, with whitespace around them.
DirectionWords ==
    {it.key : it \in directions} \cup
    {<<>>, <<"x">>, <<"n", "n">>, <<"n", "n", "e">>, <<"n", "o", "r", "t", "h", "s">>, <<"u", "p">>,
     <<"n", " ", "e">>}
Directions ==
    {l \o c \o r : l \in Paddings, r \in Paddings,
                   c \in UNION {Casings(w) : w \in DirectionWords}}

\* A GeoTools object and the argument of one cardinal_to_bearing call.
InitBearing ==
    /\ backend = "A"
    /\ alive = TRUE
    /\ index = IndexFlatL2(Dim)
    /\ documents = <<>>
    /\ metadata = <<>>
    /\ disk = NoFiles
    /\ table = <<>>
    /\ credited = 0
    /\ faults = 0
    /\ threads = [t \in Threads |-> NoThread]
    /\ base = NoBase
    /\ schema = {}
    /\ folder = {}
    /\ calls = <<>>
    /\ geocode_cache = EmptyDict
    /\ geocoder = NoLookups
    /\ \E direction \in Directions :
          lastOp = [NoCall EXCEPT !.op = "direction",
                                  !.direction = direction]

\* cardinal_to_bearing(direction) is called.
CardinalToBearing ==
    /\ lastOp.op = "direction"
    /\ lastOp' = [lastOp EXCEPT
                     !.op = "bearing",
                     !.result = cardinal_to_bearing(lastOp.direction)]
    /\ UNCHANGED <<backend, alive, index, documents, metadata, disk, table,
                   credited, faults, conc, schema, folder, side>>

\* cardinal_to_bearing applied to every direction of Directions.
SpecBearing == InitBearing /\ [][CardinalToBearing]_vars

----------------------------------------------------------------------------
(* GeoTools.geocode. Locations, regions and queries are sequences of       *)
(* characters; the external geocoder answers a lookup with a place, with    *)
(* nothing, or raises.                                                      *)

Locations == {<<"a">>, <<"a", ",", " ", "b">>}
Regions == {<<"c">>, <<"b", ",", " ", "c">>}

\* What geopy answers with: a Location with latitude, longitude, address.
Places ==
    {[latitude |-> 1, longitude |-> 2, address |-> "A"],
     [latitude |-> 3, longitude |-> 4, address |-> "B"]}
Answers ==
    {[raises |-> TRUE, found |-> None]} \cup
    {[raises |-> FALSE, found |-> f] :
        f \in {None} \cup {Some(p) : p \in Places}}

\* f"{location}, {region}", line 52
FullQuery(location, region) == location \o <<",", " ">> \o region

\* lines 69-73
GeoData(place) ==
    [latitude |-> place.latitude, longitude |-> place.longitude,
     display_name |-> place.address]

\* dict[key] = value on a dict given as a function
Put(dict, key, value) ==
    [q \in DOMAIN dict \cup {key} |-> IF q = key THEN value ELSE dict[q]]

\* geocode that caches what the lookup answered, nothing included.
geocode_CachesMisses(cache, g, location, region, answer) ==
    LET full_query == FullQuery(location, region)
        sent == Append(g.sent, [location |-> location, region |-> region,
                                query |-> full_query, answer |-> answer])
    IN  IF full_query \in DOMAIN cache
        THEN [cache |-> cache, geocoder |-> g, result |-> cache[full_query]]
        ELSE IF answer.raises
        THEN [cache |-> cache, geocoder |-> [g EXCEPT !.sent = sent],
              result |-> None]
        ELSE LET found == IF answer.found # None
                          THEN Some(GeoData(answer.found[1])) ELSE None
             IN  [cache |-> Put(cache, full_query, found),
                  geocoder |-> [sent |-> sent,
                                last_geocode_time |-> Len(sent)],
                  result |-> found]

\* geocode(location, region), lines 52-80, on a GeoTools whose cache is
\* cache and whose geocoder is g; answer is what the external geocoder does
\* if it is asked. A value of the cache is what geocode returns for the
\* query: Some(geo_data).
geocode(cache, g, location, region, answer) ==
    LET full_query == FullQuery(location, region)
        sent == Append(g.sent, [location |-> location, region |-> region,
                                query |-> full_query, answer |-> answer])
    IN  IF full_query \in DOMAIN cache
        THEN [cache |-> cache, geocoder |-> g, result |-> cache[full_query]]
        ELSE IF answer.raises
        THEN [cache |-> cache, geocoder |-> [g EXCEPT !.sent = sent],
              result |-> None]
        ELSE IF answer.found # None
        THEN [cache |-> Put(cache, full_query,
                              Some(GeoData(answer.found[1]))),
              geocoder |-> [sent |-> sent, last_geocode_time |-> Len(sent)],
              result |-> Some(GeoData(answer.found[1]))]
        ELSE [cache |-> cache,
              geocoder |-> [sent |-> sent, last_geocode_time |-> Len(sent)],
              result |-> None]

\* geo_tools.geocode(location, region) is called.
Geocode(location, region, answer) ==
    LET r == geocode(geocode_cache, geocoder, location, region, answer)
    IN  /\ Len(r.geocoder.sent) <= MaxLookups
        /\ geocode_cache' = r.cache
        /\ geocoder' = r.geocoder
        /\ lastOp' = [NoCall EXCEPT !.op = "geocode", !.location = location,
                                    !.region = region, !.result = r.result,
                                    !.before = Len(geocoder.sent)]
        /\ UNCHANGED <<backend, alive, index, documents, metadata, disk,
                       table, credited, faults, conc, schema, folder, calls>>

NextGeo ==
    \E location \in Locations, region \in Regions, answer \in Answers :
       Geocode(location, region, answer)

\* One GeoTools object, its geocode called again and again.
SpecGeo == InitStore("A") /\ [][NextGeo]_vars

----------------------------------------------------------------------------
(* Claims *)

IsAdd(c) == c.op = "add"
IsClear(c) == c.op = "clear"
IsSearch(c) == c.op = "search"

\* The metadata entries add_documents of Backend A stores for a batch.
StoredMetas(texts, metadatas) ==
    IF metadatas # None /\ metadatas[1] # <<>>
    THEN metadatas[1]
    ELSE [i \in 1..Len(texts) |-> EmptyDict]

\* metadatas is None or has one entry per text.
WellFormed(texts, metadatas) ==
    metadatas = None \/ Len(metadatas[1]) = Len(texts)

\* C1: Backend A positional alignment. In every state of a live
\* FastDocumentStore, index.ntotal = len(documents) = len(metadata), the
\* vector at every position is the embedding of the text at that position,
\* and after an add_documents call that returned normally the last entries
\* of metadata are the metadata passed with the batch's texts, entry for
\* entry.
C1_PositionalAlignment ==
    (backend = "A" /\ alive) =>
        /\ index.ntotal = Len(documents)
        /\ Len(documents) = Len(metadata)
        /\ \A i \in 1..Len(documents) :
              Reconstruct(index, i - 1) = Embedding(documents[i])
        /\ (IsAdd(lastOp) /\ lastOp.outcome = "ok" /\ lastOp.texts # <<>>) =>
              /\ Len(StoredMetas(lastOp.texts, lastOp.metadatas))
                    = Len(lastOp.texts)
              /\ \A j \in 1..Len(lastOp.texts) :
                    LET i == Len(documents) - Len(lastOp.texts) + j
                    IN  /\ documents[i] = lastOp.texts[j]
                        /\ metadata[i]
                              = StoredMetas(lastOp.texts, lastOp.metadatas)[j]

\* C2: Backend A durability round trip. While every call so far has
\* returned normally, and after every add_documents of a non-empty batch and
\* every clear that returned normally, a store constructed anew on the same
\* store_path holds the same index (ntotal, vectors in order), the same texts
\* and the same metadata as the live store.
C2_RoundTrip ==
    (/\ backend = "A"
     /\ alive
     /\ \/ faults = 0
        \/ /\ lastOp.outcome = "ok"
           /\ IsClear(lastOp) \/ (IsAdd(lastOp) /\ lastOp.texts # <<>>))
    => Construct(disk) = [outcome |-> "ok", store |-> CurrentA]

\* C2 witness: an add_documents call has returned normally and the store
\* holds two records, the files holding them too.
C2_Witness ==
    /\ backend = "A"
    /\ IsAdd(lastOp) /\ lastOp.outcome = "ok"
    /\ Len(documents) = 2
    /\ disk.index.st = "ok" /\ disk.docs.st = "ok"

\* What the call recorded in c was writing when it reached save(), given the
\* store s it started from.
Written(s, c) ==
    IF IsAdd(c) THEN Extend(s, c.texts, c.metadatas) ELSE EmptyStore

\* C3: Backend A crash-safe snapshot. When the process stops inside save()
\* (in add_documents or in clear), a store constructed afterwards loads
\* either what a store constructed before the call would have loaded, or the
\* state that save() was writing.
C3_CrashSafeSnapshot ==
    [][(/\ backend = "A"
        /\ lastOp'.outcome = "crash"
        /\ lastOp'.stop \in SaveStops)
       => Construct(disk') \in
             {Construct(disk),
              [outcome |-> "ok", store |-> Written(CurrentA, lastOp')]}]_vars

\* C4: Backend A insert is all-or-nothing. An add_documents call that fails
\* after the embedding step leaves the in-memory store and both artifacts as
\* they were; one that returns normally leaves the whole batch in the
\* in-memory store and in the artifacts.
C4_InsertAllOrNothing ==
    [][(backend = "A" /\ alive /\ IsAdd(lastOp') /\ lastOp'.texts # <<>>) =>
         /\ (lastOp'.outcome = "raise" /\ lastOp'.stop \in SaveStops) =>
               /\ <<index', documents', metadata'>> = memA
               /\ disk' = disk
         /\ lastOp'.outcome = "ok" =>
               /\ StoreOf(index', documents', metadata')
                     = Extend(CurrentA, lastOp'.texts, lastOp'.metadatas)
               /\ Construct(disk')
                     = [outcome |-> "ok",
                        store |-> Extend(CurrentA, lastOp'.texts,
                                         lastOp'.metadatas)]]_vars

\* C5: Backend A startup never crashes on a failed load. The constructor
\* always completes; with no artifact on disk, or with an artifact that
\* cannot be read, the store it yields is empty.
C5_StartupNeverCrashes ==
    (backend = "A" /\ lastOp.op = "init") =>
        /\ lastOp.outcome = "ok"
        /\ alive
        /\ (disk = NoFiles \/ disk.index.st = "partial"
                           \/ disk.docs.st = "partial")
              => CurrentA = EmptyStore

\* Number of rows of Backend B that satisfy the filters f.
Matching(rows, f) == Cardinality({i \in 1..Len(rows) : Where(rows[i], f)})

\* C6: clear empties the store and leaves it usable, in both backends. After
\* clear() has returned: get_stats reports total_chunks = 0; search returns
\* the empty list for every query, every k >= 0 and every filter; an
\* add_documents of n chunks (metadatas None or one per chunk) would give
\* total_chunks = n; and a Backend A store constructed anew is empty.
C6_ClearEmpties ==
    (alive /\ IsClear(lastOp) /\ lastOp.outcome = "ok") =>
        /\ backend = "A" =>
              /\ StatsA(CurrentA).total_chunks = 0
              /\ StatsA(CurrentA).index_size = 0
              /\ \A q \in Queries, k \in 0..MaxK :
                    SearchOutcomesA(CurrentA, q, k, "done")
                       = {[outcome |-> "ok", result |-> <<>>]}
              /\ \A texts \in TextLists, metadatas \in MetadataArgs :
                    WellFormed(texts, metadatas) =>
                       StatsA(Extend(CurrentA, texts, metadatas)).total_chunks
                          = Len(texts)
              /\ Construct(disk) = [outcome |-> "ok", store |-> EmptyStore]
        /\ backend = "B" =>
              /\ StatsB(table).total_chunks = 0
              /\ \A q \in Queries, k \in 0..MaxK, f \in FilterSet :
                    SearchOutcomesB(table, q, k, f, "done")
                       = {[outcome |-> "ok", result |-> <<>>]}
              /\ \A texts \in TextLists, metadatas \in MetadataArgs :
                    WellFormed(texts, metadatas) =>
                       StatsB(table \o PrepareData(texts, metadatas))
                          .total_chunks = Len(texts)

\* C6 witness: clear() has returned normally on a store that held two
\* records.
C6_Witness ==
    /\ IsClear(lastOp) /\ lastOp.outcome = "ok"
    /\ alive
    /\ lastOp.before = 2

\* C7: the stores are append-only until clear. A call of add_documents,
\* search or get_stats that leaves the store alive keeps every stored record
\* at its position with its text, metadata and vector; an add_documents that
\* returns normally puts the new records after them, in the order of the
\* texts passed.
C7_AppendOnly ==
    [][(alive /\ alive' /\ lastOp'.op \in {"add", "search", "stats"}) =>
         /\ IsPrefix(documents, documents')
         /\ IsPrefix(metadata, metadata')
         /\ IsPrefix(index.xb, index'.xb)
         /\ IsPrefix(table, table')
         /\ (IsAdd(lastOp') /\ lastOp'.outcome = "ok" /\ lastOp'.texts # <<>>) =>
               /\ backend = "A" =>
                     /\ documents' = documents \o lastOp'.texts
                     /\ index'.xb = index.xb \o Flatten(encode(lastOp'.texts))
                     /\ index'.ntotal = index.ntotal + Len(lastOp'.texts)
                     /\ metadata' = metadata \o StoredMetas(lastOp'.texts,
                                                          lastOp'.metadatas)
               /\ backend = "B" =>
                     /\ Len(table') <= Len(table) + Len(lastOp'.texts)
                     /\ \A j \in 1..(Len(table') - Len(table)) :
                           /\ table'[Len(table) + j].content = lastOp'.texts[j]
                           /\ table'[Len(table) + j].embedding
                                 = Embedding(lastOp'.texts[j])]_vars

\* C7 witness: add_documents has returned normally on a store that already
\* held a record.
C7_Witness ==
    /\ IsAdd(lastOp) /\ lastOp.outcome = "ok" /\ lastOp.texts # <<>>
    /\ lastOp.before > 0

\* C8: record-count invariant. In every state of a live store the record
\* count (A: index.ntotal and len(documents); B: the rows of documents)
\* equals the number of chunks passed to the add_documents calls that
\* returned normally since the last clear.
C8_RecordCount ==
    alive =>
        /\ backend = "A" =>
              index.ntotal = credited /\ Len(documents) = credited
        /\ backend = "B" => Len(table) = credited

\* C9: search is read-only. A search call, whether it returns results,
\* returns the empty list or fails, leaves the stored records and the
\* persisted state as they were.
C9_SearchReadOnly ==
    [][IsSearch(lastOp') =>
         UNCHANGED <<index, documents, metadata, disk, table, alive>>]_vars

\* C9 witness: a search has returned a result.
C9_Witness ==
    IsSearch(lastOp) /\ lastOp.outcome = "ok" /\ lastOp.result # <<>>

\* Number of stored records a search call may return: the vectors of the
\* index (A), the rows that satisfy the call's filters (B).
Eligible(c) ==
    IF backend = "A" THEN index.ntotal ELSE Matching(table, c.filters)

\* C10: search result size. A search that returns gives at most min(k, M)
\* results, M the number of stored records that satisfy the filters, and no
\* stored record twice; with M = 0 a search whose embedding call and query
\* do not fail returns the empty list.
C10_ResultSize ==
    (alive /\ IsSearch(lastOp)) =>
        /\ lastOp.outcome = "ok" =>
              /\ Len(lastOp.result) <= Min(lastOp.k, Eligible(lastOp))
              /\ \A a, b \in 1..Len(lastOp.result) :
                    a # b => lastOp.result[a].pos # lastOp.result[b].pos
        /\ (Eligible(lastOp) = 0 /\ lastOp.stop = "done") =>
              lastOp.outcome = "ok" /\ lastOp.result = <<>>

\* C10 witness: a filtered search on two rows with k = 2 has returned the
\* one row that satisfies the filters.
C10_Witness ==
    /\ backend = "B"
    /\ IsSearch(lastOp) /\ lastOp.outcome = "ok"
    /\ lastOp.k = 2 /\ Len(table) = 2
    /\ Matching(table, lastOp.filters) = 1
    /\ Len(lastOp.result) = 1

\* The stored record at position p1 is at most as far from the vector q as
\* the one at position p2, in the metric of the backend.
NoFarther(p1, p2, q) ==
    IF backend = "A"
    THEN L2Sq(Reconstruct(index, p1 - 1), q)
            <= L2Sq(Reconstruct(index, p2 - 1), q)
    ELSE CosineLeq(table[p1].embedding, table[p2].embedding, q)

\* The positions of the stored records a search call may return: every
\* record with a text (A), the rows that satisfy the call's filters (B).
EligiblePos(c) ==
    IF backend = "A" THEN 1..Min(Len(documents), index.ntotal)
    ELSE {i \in 1..Len(table) : Where(table[i], c.filters)}

\* The positions a result list returns.
Returned(r) == {r[a].pos : a \in 1..Len(r)}

\* C11: search ordering and tie-break, in both backends. The list a search
\* returns is in non-decreasing distance to the query; of two returned
\* records at the same distance the one inserted earlier comes first; and a
\* record that is not returned, at the same distance as a returned one, was
\* inserted later than it.
C11_OrderAndTieBreak ==
    (alive /\ IsSearch(lastOp) /\ lastOp.outcome = "ok") =>
        LET r == lastOp.result
            q == Embedding(lastOp.query)
        IN  /\ \A a, b \in 1..Len(r) :
                  a < b => NoFarther(r[a].pos, r[b].pos, q)
            /\ \A a, b \in 1..Len(r) :
                  (a < b /\ NoFarther(r[b].pos, r[a].pos, q))
                     => r[a].pos < r[b].pos
            /\ \A a \in 1..Len(r), p \in EligiblePos(lastOp) \ Returned(r) :
                  (NoFarther(p, r[a].pos, q) /\ NoFarther(r[a].pos, p, q))
                     => r[a].pos < p

\* The vector stored at position p.
StoredVector(p) ==
    IF backend = "A" THEN Reconstruct(index, p - 1) ELSE table[p].embedding

\* The positions whose stored vector is the vector q.
Holding(q) ==
    {p \in 1..(IF backend = "A" THEN index.ntotal ELSE Len(table)) :
        StoredVector(p) = q}

\* C12: self-retrieval, in both backends. A search without filters, with
\* k >= 1, whose query vector is the vector of a stored record returns
\* first the earliest-inserted record that has this vector, and no returned
\* record is nearer to the query than the first.
C12_SelfRetrieval ==
    (/\ alive /\ IsSearch(lastOp) /\ lastOp.stop = "done"
     /\ lastOp.k >= 1 /\ lastOp.filters = NoFilter
     /\ Holding(Embedding(lastOp.query)) # {})
    => LET r == lastOp.result
           q == Embedding(lastOp.query)
           self == Holding(q)
       IN  /\ lastOp.outcome = "ok"
           /\ r # <<>>
           /\ r[1].pos \in self /\ \A p \in self : r[1].pos <= p
           /\ \A a \in 1..Len(r) : NoFarther(r[1].pos, r[a].pos, q)

FilterNames == {"date_year", "date_year_range", "location", "source_file"}

\* The filters a request gives.
Given(f) == {n \in FilterNames : f[n] # None}

LowerStr(str) == [i \in 1..Len(str) |-> Lower(str[i])]

\* str contains sub as a substring, letter case ignored.
Contains(str, sub) ==
    \E i \in 0..(Len(str) - Len(sub)) :
        LowerStr(SubSeq(str, i + 1, i + Len(sub))) = LowerStr(sub)

\* A record with metadata m satisfies the filter n of the request f.
Satisfies(m, n, f) ==
    CASE n = "date_year" -> m.date_year = f.date_year
      [] n = "date_year_range" ->
            /\ m.date_year # None
            /\ f.date_year_range[1][1] <= m.date_year[1]
            /\ m.date_year[1] <= f.date_year_range[1][2]
      [] n = "location" ->
            m.location # None /\ Contains(m.location[1], f.location[1])
      [] n = "source_file" -> m.source_file = f.source_file

\* The rows that satisfy every filter the request f gives.
SatisfyAll(rows, f) ==
    {i \in 1..Len(rows) :
        \A n \in Given(f) : Satisfies(MetadataOf(rows[i]), n, f)}

\* The members of a set of numbers, in ascending order.
Ascending(S) ==
    CHOOSE s \in [1..Cardinality(S) -> S] :
        \A a, b \in 1..Cardinality(S) : a < b => s[a] < s[b]

\* C13: filter conjunction (Backend B). Every record a search returns
\* satisfies every filter the request gives, and the answers the search can
\* give are exactly those of the same search without filters on a table that
\* holds the satisfying rows alone: no satisfying row is kept from the
\* ranking, and a filter that is not given constrains nothing.
C13_FilterConjunction ==
    (backend = "B" /\ alive /\ IsSearch(lastOp) /\ lastOp.outcome = "ok") =>
        LET f == lastOp.filters
            q == Embedding(lastOp.query)
            sat == SatisfyAll(table, f)
            idx == Ascending(sat)
            sub == [j \in 1..Cardinality(sat) |-> table[idx[j]]]
        IN  /\ Returned(lastOp.result) \subseteq sat
            /\ Select(table, f, q, lastOp.k)
                  = {[a \in 1..Len(r) |-> idx[r[a]]] :
                        r \in Select(sub, NoFilter, q, lastOp.k)}

\* C13 witness: a search with two filters on a table of two rows has
\* returned the one row that satisfies both.
C13_Witness ==
    /\ backend = "B"
    /\ IsSearch(lastOp) /\ lastOp.outcome = "ok"
    /\ Cardinality(Given(lastOp.filters)) = 2
    /\ Len(table) = 2
    /\ Returned(lastOp.result) = SatisfyAll(table, lastOp.filters)
    /\ Len(lastOp.result) = 1

\* C14: filter semantics per field (Backend B). In a search that gives
\* date_year_range = (lo, hi) the rows ranked are exactly the rows with
\* lo <= date_year <= hi, a row without date_year never among them; in a
\* search that gives location they are exactly the rows whose location
\* contains the given string, letter case ignored; and the search returns
\* none but these.
C14_FilterSemantics ==
    (backend = "B" /\ alive /\ IsSearch(lastOp) /\ lastOp.outcome = "ok") =>
        /\ EligiblePos(lastOp) = SatisfyAll(table, lastOp.filters)
        /\ Returned(lastOp.result) \subseteq SatisfyAll(table, lastOp.filters)

\* The filter fields of a metadata dict of Backend A, None where the dict
\* has no such key.
FilterFields(m) ==
    [date_year |-> Get(m, "date_year"), location |-> Get(m, "location"),
     source_file |-> Get(m, "source_file")]

\* C15: Backend A takes the search request of Backend B. A search of
\* Backend A that gives filters is carried out (it does not fail on the
\* request), and every record it returns satisfies every given filter.
C15_FilteredSearchA ==
    (backend = "A" /\ alive /\ IsSearch(lastOp) /\ lastOp.filters # NoFilter)
    => /\ lastOp.stop # "signature"
       /\ lastOp.outcome = "ok" =>
             \A a \in 1..Len(lastOp.result), n \in Given(lastOp.filters) :
                Satisfies(FilterFields(lastOp.result[a].metadata), n,
                          lastOp.filters)

\* The source_file values and the date_year values of the stored records.
StoredFiles ==
    IF backend = "A"
    THEN {metadata[i]["source_file"] :
            i \in {j \in 1..Len(metadata) : "source_file" \in DOMAIN metadata[j]}}
    ELSE {table[i].source_file[1] :
            i \in {j \in 1..Len(table) : table[j].source_file # None}}

StoredYears ==
    IF backend = "A"
    THEN {metadata[i]["date_year"] :
            i \in {j \in 1..Len(metadata) : "date_year" \in DOMAIN metadata[j]}}
    ELSE {table[i].date_year[1] :
            i \in {j \in 1..Len(table) : table[j].date_year # None}}

StoredCount == IF backend = "A" THEN Len(documents) ELSE Len(table)

IsStats(c) == c.op = "stats" /\ c.outcome = "ok"

\* C16: stats counts, in both backends. What get_stats returns has
\* total_chunks, the number of stored records, unique_files, the number of
\* distinct source_file values among them, and dimension, the dimension of
\* the embeddings, all three of the state the call was made in.
C16_StatsCounts ==
    (alive /\ IsStats(lastOp)) =>
        /\ {"total_chunks", "unique_files", "dimension"}
              \subseteq DOMAIN lastOp.result
        /\ lastOp.result.total_chunks = StoredCount
        /\ lastOp.result.unique_files = Cardinality(StoredFiles)
        /\ lastOp.result.dimension = Dim

\* C17: stats year range, in both backends. What get_stats returns has
\* year_range: the smallest and the largest date_year of the stored records
\* that have one, and None exactly when no stored record has a date_year.
C17_StatsYearRange ==
    (alive /\ IsStats(lastOp)) =>
        /\ "year_range" \in DOMAIN lastOp.result
        /\ StoredYears = {} => lastOp.result.year_range = None
        /\ StoredYears # {} =>
              /\ lastOp.result.year_range # None
              /\ lastOp.result.year_range[1][1] \in StoredYears
              /\ lastOp.result.year_range[1][2] \in StoredYears
              /\ \A y \in StoredYears :
                    /\ lastOp.result.year_range[1][1] <= y
                    /\ y <= lastOp.result.year_range[1][2]

\* C18: add_documents validates the lengths. A call with chunks and a
\* metadatas list of another length is rejected with an error and leaves
\* the records and the persisted state as they were.
C18_LengthValidation ==
    [][(/\ IsAdd(lastOp') /\ lastOp'.texts # <<>>
        /\ lastOp'.metadatas # None
        /\ Len(lastOp'.metadatas[1]) # Len(lastOp'.texts))
       => /\ lastOp'.outcome = "raise"
          /\ UNCHANGED <<index, documents, metadata, disk, table>>]_vars

\* C19: add_documents with an empty chunk list is a no-op. The call
\* returns without error, whatever metadatas it is given; the stored
\* records, the answer of get_stats, the artifacts of Backend A and the rows
\* of Backend B are as before the call.
C19_EmptyAddNoOp ==
    [][(IsAdd(lastOp') /\ lastOp'.texts = <<>>) =>
         /\ lastOp'.outcome = "ok"
         /\ UNCHANGED <<index, documents, metadata, disk, table, alive>>
         /\ StatsA(StoreOf(index', documents', metadata')) = StatsA(CurrentA)
         /\ StatsB(table') = StatsB(table)
         /\ Construct(disk') = Construct(disk)]_vars

\* C19 witness: add_documents with no chunk and one metadata entry has
\* returned on a store that holds records.
C19_Witness ==
    /\ IsAdd(lastOp) /\ lastOp.outcome = "ok"
    /\ lastOp.texts = <<>>
    /\ lastOp.metadatas # None /\ Len(lastOp.metadatas[1]) = 1
    /\ lastOp.before > 0

\* C20: an embedding failure inserts nothing. A call of add_documents or
\* search in which the embedding call fails does not return normally; the
\* artifacts of Backend A and the rows of Backend B are as before the call,
\* and so are the index, documents and metadata of the store that lives on.
C20_EmbeddingFailure ==
    [][lastOp'.stop = "encode" =>
         /\ lastOp'.op \in {"add", "search"}
         /\ lastOp'.outcome # "ok"
         /\ UNCHANGED <<disk, table>>
         /\ lastOp'.outcome = "raise" =>
               UNCHANGED <<index, documents, metadata, alive>>]_vars

\* C20 witness: the embedding call has failed in an add_documents on a
\* store that holds records, and the store lives on.
C20_Witness ==
    /\ IsAdd(lastOp) /\ lastOp.stop = "encode" /\ lastOp.outcome = "raise"
    /\ lastOp.texts # <<>>
    /\ lastOp.before > 0
    /\ alive

\* The store is aligned: one text and one metadata entry per vector.
Aligned(s) ==
    s.index.ntotal = Len(s.documents) /\ Len(s.documents) = Len(s.metadata)

\* What search(query, k) answers in the store s.
AnswersIn(s, query, k) ==
    {[outcome |-> o.outcome, result |-> o.result] :
        o \in SearchOutcomesA(s, query, k, "done")}

\* C21: a search that runs while one add_documents call runs on the same
\* store (no other call in the round, the store aligned when the round began)
\* returns normally, and what it returns is an answer of the store as it was
\* before the insert or of the store as it is after the whole insert: never
\* an index error, never a hit dropped for want of its text or metadata.
C21_ReaderIsolation ==
    \A a, s \in Threads :
        (/\ threads[a].op = "add" /\ threads[s].op = "search"
         /\ threads[s].pc = "done"
         /\ \A u \in Threads \ {a, s} : threads[u].op = "none"
         /\ Aligned(base.store))
        => /\ threads[s].outcome = "ok"
           /\ [outcome |-> "ok", result |-> threads[s].result] \in
                 AnswersIn(base.store, threads[s].query, threads[s].k)
                 \cup AnswersIn(Extend(base.store, threads[a].texts,
                                        threads[a].metadatas),
                                 threads[s].query, threads[s].k)

\* The store a mutating call leaves when it runs alone on the store s.
Alone(c, s) ==
    IF c.op = "add" THEN Extend(s, c.texts, c.metadatas) ELSE EmptyStore

\* C22: when two mutating calls (add_documents, clear) issued in one round
\* have both returned, the store in memory and the two artifacts are those of
\* the two calls run one after the other, in one of the two orders.
C22_SingleWriter ==
    \A a, b \in Threads :
        (/\ a # b
         /\ threads[a].op \in {"add", "clear"} /\ threads[a].pc = "done"
         /\ threads[b].op \in {"add", "clear"} /\ threads[b].pc = "done"
         /\ \A u \in Threads \ {a, b} : threads[u].op = "none")
        => \E o \in {<<a, b>>, <<b, a>>} :
              LET s == Alone(threads[o[2]], Alone(threads[o[1]], base.store))
              IN  /\ CurrentA = s
                  /\ disk = save(NoFiles, s, "done")

\* The orders in which the threads of S can have committed.
Orders(S) ==
    {o \in [1..Cardinality(S) -> S] :
        \A i, j \in 1..Cardinality(S) : i # j => o[i] # o[j]}

\* The rows of the batches of the threads of o, batch after batch.
RECURSIVE BatchRows(_)
BatchRows(o) ==
    IF o = <<>> THEN <<>>
    ELSE PrepareData(threads[Head(o)].texts, threads[Head(o)].metadatas)
         \o BatchRows(Tail(o))

\* The tables that hold, after the rows of before the round, every row of
\* every batch of the threads of S and no other row.
TablesOf(S) == {base.table \o BatchRows(o) : o \in Orders(S)}

\* The add_documents calls of the round that have committed: they have
\* returned normally, or they are past line 131.
Committed ==
    {t \in Threads :
        /\ threads[t].op = "add" /\ threads[t].texts # <<>>
        /\ \/ threads[t].pc = "count"
           \/ threads[t].pc = "done" /\ threads[t].stop \in {"count", "done"}}

\* C23: Backend B writes a batch in one transaction. While calls are in
\* progress the table holds the rows it held before them and, whole, the
\* batch of every add_documents call that has committed: no row of a call
\* that raised before its commit (in the embedding, the connection or the
\* INSERT, after any number of rows) and no row of a call that has not yet
\* committed; every row of a call that returned normally. A search that ran
\* meanwhile returns an answer of such a table.
C23_BatchTransaction ==
    (\E t \in Threads : threads[t].pc # "idle") =>
        /\ table \in TablesOf(Committed)
        /\ \A s \in Threads :
              (threads[s].op = "search" /\ threads[s].pc = "done") =>
                 \E S \in SUBSET Committed : \E tb \in TablesOf(S) :
                    [outcome |-> threads[s].outcome,
                     result |-> threads[s].result]
                       \in SearchOutcomesB(tb, threads[s].query, threads[s].k,
                                           NoFilter, "done")

\* C23 witness: an add_documents call has raised in its INSERT after it had
\* written a row, and a search of the same round has returned.
C23_Witness ==
    \E t, s \in Threads :
        /\ backend = "B"
        /\ threads[t].op = "add" /\ threads[t].pc = "done"
        /\ threads[t].stop = "insert" /\ Len(threads[t].staged) >= 1
        /\ threads[s].op = "search" /\ threads[s].pc = "done"
        /\ threads[s].outcome = "ok"

\* C24: the schema bootstrap of Backend B is idempotent. Constructing a store
\* on a database that holds the extension, the table and the indexes (the
\* connection being there) succeeds, leaves every row as it was, and leaves
\* the schema that the first construction made.
C24_BootstrapIdempotent ==
    [][(backend = "B" /\ lastOp'.op = "init" /\ lastOp'.stop = "done") =>
          /\ lastOp'.outcome = "ok" /\ alive'
          /\ table' = table
          /\ schema' = schema
          /\ schema' = init_database({}).schema]_vars

\* C24 witness: a store has been constructed again on a table that holds
\* rows.
C24_Witness ==
    /\ backend = "B" /\ lastOp.op = "init" /\ lastOp.outcome = "ok"
    /\ alive
    /\ Len(table) > 0
    /\ schema = {Statements[i] : i \in 1..Len(Statements)}

\* The file name a record carries: under source_file, or under source, the
\* key process_and_chunk writes.
SourceOf(m) ==
    IF "source_file" \in DOMAIN m THEN Some(m.source_file) ELSE Get(m, "source")

\* The (source file, chunk_index) pairs of the stored records, in order.
ChunkIds ==
    IF backend = "A"
    THEN [i \in 1..Len(metadata) |->
            <<SourceOf(metadata[i]), Get(metadata[i], "chunk_index")>>]
    ELSE [i \in 1..Len(table) |->
            <<table[i].source_file, table[i].chunk_index>>]

\* C25: chunk identity is unique. In every state reached by folder-indexing
\* runs (reindex set or not) and clear, no two stored records carry the same
\* (source file, chunk_index) pair.
C25_ChunkIdentityUnique ==
    \A i, j \in 1..Len(ChunkIds) : i # j => ChunkIds[i] # ChunkIds[j]

\* The files of a glob result, as a set.
FileSet(files) == {files[i] : i \in 1..Len(files)}

\* The step is a call: the folder is as it was.
CallStep == folder' = folder

\* C26: incremental indexing is idempotent. A folder-indexing run without
\* reindex that follows a run over the same files returns normally and adds
\* no record: the store holds as many records, of the same files, as before.
C26_IncrementalIdempotent ==
    [][(/\ CallStep
        /\ lastOp.op = "index" /\ lastOp.outcome = "ok"
        /\ lastOp.files # <<>>
        /\ lastOp'.op = "index" /\ ~lastOp'.reindex
        /\ FileSet(lastOp'.files) = FileSet(lastOp.files))
       => /\ lastOp'.outcome = "ok"
          /\ Len(documents') = Len(documents)
          /\ Len(table') = Len(table)
          /\ {SourceOf(metadata'[i]) : i \in 1..Len(metadata')}
                = {SourceOf(metadata[i]) : i \in 1..Len(metadata)}]_vars

\* The keys of a record's metadata name the file f.
NamesFile(m, f) ==
    /\ Get(m, "source_file") = Some(f.name)
    /\ Get(m, "file_type") = Some(f.type)
    /\ Get(m, "file_path") = Some(f.path)

\* C27: ingestion metadata. Every record stored by a folder-indexing run
\* carries source_file, file_type and file_path of the file it is a chunk
\* of; in Backend B the three columns of every row are not NULL.
C27_IngestionMetadata ==
    /\ \A i \in 1..Len(metadata) :
          \E f \in DocFiles : NamesFile(metadata[i], f)
    /\ \A i \in 1..Len(table) :
          /\ table[i].source_file # None
          /\ table[i].file_type # None
          /\ table[i].file_path # None

\* The chunks of the files that process, in the order of the files.
RECURSIVE ChunksOf(_)
ChunksOf(files) ==
    IF files = <<>> THEN <<>>
    ELSE (IF Head(files).chunks = None THEN <<>> ELSE Head(files).chunks[1])
         \o ChunksOf(Tail(files))

\* C28: per-file failure isolation. A folder-indexing run returns normally
\* whichever of its files fail to process, and the store then holds, after
\* what the run found (nothing when reindex is set), the chunks of every
\* file that processed.
C28_FailureIsolation ==
    [][(CallStep /\ lastOp'.op = "index") =>
          /\ lastOp'.outcome = "ok"
          /\ backend = "A" =>
                documents' = (IF lastOp'.reindex THEN <<>> ELSE documents)
                             \o ChunksOf(lastOp'.files)
          /\ backend = "B" =>
                [i \in 1..Len(table') |-> table'[i].content]
                  = [i \in 1..(IF lastOp'.reindex THEN 0 ELSE Len(table))
                       |-> table[i].content]
                    \o ChunksOf(lastOp'.files)]_vars

\* A reindexing run of the index_documents tool has just returned.
Reindexed(c) == backend = "A" /\ c.op = "index" /\ c.reindex

\* C29: reindex produces exactly the current folder. After the
\* index_documents tool ran with reindex set, whatever the store held, the
\* store holds as many chunks as the files of the folder that process give,
\* and get_stats called next reports that total; search_documents called
\* next returns at most max_results chunks, each a chunk of one of those
\* files; a second reindexing run over the same files leaves the same total.
C29_ReindexExact ==
    [][CallStep =>
       /\ Reindexed(lastOp') =>
             Len(documents') = Len(ChunksOf(lastOp'.files))
       /\ (Reindexed(lastOp) /\ IsStats(lastOp')) =>
             lastOp'.result.total_chunks = Len(ChunksOf(lastOp.files))
       /\ (Reindexed(lastOp) /\ IsSearch(lastOp') /\ lastOp'.outcome = "ok") =>
             /\ Len(lastOp'.result) <= lastOp'.k
             /\ \A a \in 1..Len(lastOp'.result) :
                   \E f \in FileSet(lastOp.files) :
                      /\ f.chunks # None
                      /\ \E i \in 1..Len(f.chunks[1]) :
                            lastOp'.result[a].text = f.chunks[1][i]
                      /\ SourceOf(lastOp'.result[a].metadata) = Some(f.name)
       /\ (Reindexed(lastOp) /\ Reindexed(lastOp')
           /\ FileSet(lastOp'.files) = FileSet(lastOp.files)) =>
             Len(documents') = Len(documents)]_vars

\* C29 witness: a reindexing run has returned on a store that held records,
\* over a folder with a file that processes and one that does not.
C29_Witness ==
    /\ Reindexed(lastOp) /\ lastOp.outcome = "ok"
    /\ lastOp.before > 0
    /\ lastOp.result # <<>> /\ lastOp.result.errors # <<>>
    /\ 0 < Len(documents) /\ Len(documents) < lastOp.before

\* The positions of text where a whitespace-delimited token begins.
TokenStarts(text) ==
    {i \in 1..Len(text) :
        text[i] \notin Whitespace /\ (i = 1 \/ text[i - 1] \in Whitespace)}

\* The token of text that begins at position i.
TokenAt(text, i) ==
    LET last == CHOOSE j \in i..Len(text) :
                   /\ \A m \in i..j : text[m] \notin Whitespace
                   /\ j = Len(text) \/ text[j + 1] \in Whitespace
    IN  SubSeq(text, i, last)

\* The tokens of text, in the order of the text.
Tokens(text) ==
    LET starts == TokenStarts(text)
        nth(a) == CHOOSE i \in starts :
                     Cardinality({m \in starts : m < i}) = a - 1
    IN  [a \in 1..Cardinality(starts) |-> TokenAt(text, nth(a))]

\* The tokens toks, one space between two that follow each other.
RECURSIVE Spaced(_)
Spaced(toks) ==
    IF toks = <<>> THEN <<>>
    ELSE IF Len(toks) = 1 THEN toks[1]
    ELSE Spaced(SubSeq(toks, 1, Len(toks) - 1)) \o <<" ">> \o toks[Len(toks)]

\* The chunk has no leading, trailing or repeated whitespace.
Tidy(chunk) ==
    /\ chunk # <<>>
    /\ chunk[1] \notin Whitespace /\ chunk[Len(chunk)] \notin Whitespace
    /\ \A i \in 1..(Len(chunk) - 1) :
          ~(chunk[i] \in Whitespace /\ chunk[i + 1] \in Whitespace)
    /\ \A i \in 1..Len(chunk) : chunk[i] \in Whitespace => chunk[i] = " "

\* C30: chunker windows. For chunk_overlap < chunk_size and a text of n >= 1
\* whitespace-delimited tokens, chunk_text returns normally one chunk for
\* each offset 0, step, 2*step, ... below n (step = chunk_size -
\* chunk_overlap); chunk j is the tokens from offset j*step up to (not
\* including) min(j*step + chunk_size, n), one space between them, so no
\* chunk begins or ends inside a token, and no chunk has leading, trailing
\* or repeated whitespace.
C30_ChunkerWindows ==
    LET toks == Tokens(lastOp.text)
        n == Len(toks)
        size == lastOp.chunk_size
        step == lastOp.chunk_size - lastOp.chunk_overlap
        chunks == lastOp.result.chunks
        offsets == {i \in 0..(n - 1) : i % step = 0}
    IN  (lastOp.op = "chunk" /\ step > 0 /\ n >= 1) =>
           /\ lastOp.outcome = "ok"
           /\ Len(chunks) = Cardinality(offsets)
           /\ \A j \in 0..(Len(chunks) - 1) :
                 /\ j * step \in offsets
                 /\ chunks[j + 1] =
                       Spaced(SubSeq(toks, j * step + 1,
                                     Min(j * step + size, n)))
                 /\ Tidy(chunks[j + 1])

\* C30 witness: chunk_text has made overlapping chunks, the last one
\* shorter than chunk_size, of a text with leading whitespace and a run of
\* different whitespace characters.
C30_Witness ==
    /\ lastOp.op = "chunk" /\ lastOp.outcome = "ok"
    /\ lastOp.chunk_overlap >= 1
    /\ lastOp.chunk_size > lastOp.chunk_overlap
    /\ Len(lastOp.result.chunks) >= 2
    /\ lastOp.text[1] \in Whitespace
    /\ \E i \in 1..(Len(lastOp.text) - 1) :
          lastOp.text[i] = " " /\ lastOp.text[i + 1] = "\t"
    /\ Len(split(lastOp.result.chunks[Len(lastOp.result.chunks)]))
          < lastOp.chunk_size

\* The number of whitespace-delimited tokens of a chunk.
TokenCount(chunk) == Len(split(chunk))

\* C31: only the last chunk may be short. For chunk_overlap < chunk_size
\* and every text, every chunk that chunk_text returns except the last one
\* has exactly chunk_size tokens, and the last one has between 1 and
\* chunk_size tokens.
C31_OnlyLastShort ==
    LET chunks == lastOp.result.chunks
        size == lastOp.chunk_size
    IN  (lastOp.op = "chunk" /\ lastOp.chunk_overlap < size) =>
           /\ lastOp.outcome = "ok"
           /\ \A j \in 1..Len(chunks) :
                 IF j < Len(chunks) THEN TokenCount(chunks[j]) = size
                 ELSE TokenCount(chunks[j]) \in 1..size

\* C32: an invalid chunk configuration fails fast. chunk_text of a
\* DocumentProcessor with chunk_overlap >= chunk_size raises for every text,
\* the empty one included, and never returns a list of chunks.
C32_InvalidConfigFails ==
    (lastOp.op = "chunk" /\ lastOp.chunk_overlap >= lastOp.chunk_size) =>
       lastOp.outcome = "raise"

\* The dict the caller passed to chunk_text ({} stands for none).
BaseMetadata == IF lastOp.metadatas # None THEN lastOp.metadatas[1]
                ELSE EmptyDict

\* C33: chunk metadata. chunk_text returns as many metadata entries as
\* chunks; entry i (from 0) holds the items of the base metadata and
\* chunk_index = i; every entry is a dict of its own, none of them the
\* caller's; the caller's dict is as it was; and setting a key of one entry
\* leaves the others as they are.
C33_ChunkMetadata ==
    LET r == lastOp.result
        n == Len(r.metadatas)
    IN  (lastOp.op = "chunk" /\ lastOp.outcome = "ok") =>
           /\ n = Len(r.chunks)
           /\ \A j \in 1..n :
                 /\ DOMAIN r.metadatas[j] =
                       DOMAIN BaseMetadata \cup {"chunk_index"}
                 /\ r.metadatas[j].chunk_index = j - 1
                 /\ \A key \in DOMAIN BaseMetadata \ {"chunk_index"} :
                       r.metadatas[j][key] = BaseMetadata[key]
           /\ lastOp.metadatas # None =>
                 /\ r.heap[1] = lastOp.metadatas[1]
                 /\ \A j \in 1..n : r.refs[j] # 1
           /\ \A i \in 1..n, j \in 1..n :
                 i # j =>
                    SetItem(r.heap, r.refs[i], "page", 7)[r.refs[j]]
                       = r.metadatas[j]

\* C33 witness: chunk_text has returned two or more chunks for a call that
\* passed a metadata dict.
C33_Witness ==
    /\ lastOp.op = "chunk" /\ lastOp.outcome = "ok"
    /\ lastOp.metadatas # None
    /\ Len(lastOp.result.chunks) >= 2
    /\ lastOp.result.metadatas[2].source = "a.pdf"

\* C34: empty input to the chunker. For chunk_overlap < chunk_size and any
\* metadata, chunk_text of a text without a token (empty, or whitespace
\* only) returns two empty lists and does not raise; of a text with a token
\* it returns at least one chunk.
C34_EmptyInput ==
    LET n == Len(Tokens(lastOp.text))
    IN  (lastOp.op = "chunk" /\ lastOp.chunk_overlap < lastOp.chunk_size) =>
           /\ lastOp.outcome = "ok"
           /\ n = 0 => /\ lastOp.result.chunks = <<>>
                       /\ lastOp.result.metadatas = <<>>
           /\ n >= 1 => Len(lastOp.result.chunks) >= 1

\* C34 witness: chunk_text has returned two empty lists for a text of
\* whitespace only, called with a metadata dict.
C34_Witness ==
    /\ lastOp.op = "chunk" /\ lastOp.outcome = "ok"
    /\ lastOp.chunk_overlap < lastOp.chunk_size
    /\ Len(lastOp.text) >= 2
    /\ \A i \in 1..Len(lastOp.text) : lastOp.text[i] \in Whitespace
    /\ lastOp.metadatas # None
    /\ lastOp.result.chunks = <<>> /\ lastOp.result.metadatas = <<>>

SameLetter(a, b) ==
    a = b \/ \E x \in 1..Len(UpperCase) : {a, b} = {UpperCase[x], LowerCase[x]}

\* The direction is the name, case and surrounding whitespace set aside.
IsName(direction, name) ==
    \E i \in 0..Len(direction) :
       /\ i + Len(name) <= Len(direction)
       /\ \A m \in 1..i : direction[m] \in Whitespace
       /\ \A m \in 1..Len(name) : SameLetter(direction[i + m], name[m])
       /\ \A m \in (i + Len(name) + 1)..Len(direction) :
             direction[m] \in Whitespace

\* The short name, the long name and the bearing of the eight directions.
Compass ==
    {
     <<<<"n">>, <<"n", "o", "r", "t", "h">>, 0>>,
     <<<<"n", "e">>, <<"n", "o", "r", "t", "h", "e", "a", "s", "t">>, 45>>,
     <<<<"e">>, <<"e", "a", "s", "t">>, 90>>,
     <<<<"s", "e">>, <<"s", "o", "u", "t", "h", "e", "a", "s", "t">>, 135>>,
     <<<<"s">>, <<"s", "o", "u", "t", "h">>, 180>>,
     <<<<"s", "w">>, <<"s", "o", "u", "t", "h", "w", "e", "s", "t">>, 225>>,
     <<<<"w">>, <<"w", "e", "s", "t">>, 270>>,
     <<<<"n", "w">>, <<"n", "o", "r", "t", "h", "w", "e", "s", "t">>, 315>>}

\* C36: cardinal_to_bearing maps, case and surrounding whitespace set
\* aside, n/north to 0, ne/northeast to 45, e/east to 90, se/southeast to
\* 135, s/south to 180, sw/southwest to 225, w/west to 270 and nw/northwest
\* to 315, and every other string to 0; the result is one of the eight
\* bearings.
C36_CardinalToBearing ==
    LET d == lastOp.direction
        named == {c \in Compass : IsName(d, c[1]) \/ IsName(d, c[2])}
    IN  lastOp.op = "bearing" =>
           /\ \A c \in named : lastOp.result = c[3]
           /\ named = {} => lastOp.result = 0
           /\ lastOp.result \in {c[3] : c \in Compass}

\* C36 witness: cardinal_to_bearing has answered 315 for northwest written
\* with a capital and whitespace on both sides.
C36_Witness ==
    /\ lastOp.op = "bearing"
    /\ lastOp.result = 315
    /\ Len(lastOp.direction) > 9
    /\ lastOp.direction[1] \in Whitespace
    /\ lastOp.direction[Len(lastOp.direction)] \in Whitespace
    /\ \E i \in 1..Len(lastOp.direction) : lastOp.direction[i] = "N"

Resolved(sent, location, region) ==
    {i \in 1..Len(sent) : /\ sent[i].location = location
                          /\ sent[i].region = region
                          /\ ~sent[i].answer.raises
                          /\ sent[i].answer.found # None}

\* What geocode returns for the place a lookup answered.
AsGeoData(place) ==
    Some([latitude |-> place.latitude, longitude |-> place.longitude,
          display_name |-> place.address])

\* C40: the geocode cache. The external geocoder is asked at most once for
\* a (location, region) that has resolved, and never after that; a later
\* call for it returns what the first one returned, without a lookup; a
\* lookup that finds nothing or raises returns None, leaves the cache as it
\* is, and is made again by the next call for the same arguments; and an
\* entry of the cache never changes or goes away.
C40_GeocodeCache ==
    [][LET sent == geocoder.sent
           sent2 == geocoder'.sent
           loc == lastOp'.location
           reg == lastOp'.region
           done == Resolved(sent, loc, reg)
           asked == Len(sent2) = Len(sent) + 1
       IN  /\ \A q \in DOMAIN geocode_cache :
                 q \in DOMAIN geocode_cache'
                    /\ geocode_cache'[q] = geocode_cache[q]
           /\ \A l \in Locations, r \in Regions :
                 /\ Cardinality(Resolved(sent2, l, r)) <= 1
                 /\ \A i \in Resolved(sent2, l, r), j \in 1..Len(sent2) :
                       (sent2[j].location = l /\ sent2[j].region = r) =>
                          j <= i
           /\ done # {} =>
                 /\ sent2 = sent
                 /\ \A i \in done :
                       lastOp'.result = AsGeoData(sent[i].answer.found[1])
           /\ asked =>
                 LET answer == sent2[Len(sent2)].answer
                 IN  IF answer.raises \/ answer.found = None
                     THEN /\ lastOp'.result = None
                          /\ geocode_cache' = geocode_cache
                     ELSE lastOp'.result = AsGeoData(answer.found[1])
           /\ (/\ lastOp.op = "geocode" /\ lastOp.result = None
               /\ Len(sent) > lastOp.before
               /\ lastOp.location = loc /\ lastOp.region = reg) => asked
      ]_vars

\* C40 witness: a lookup found nothing, the next call for the same arguments
\* looked up again and a place answered, and a third call has returned that
\* place without a lookup.
C40_Witness ==
    /\ lastOp.op = "geocode"
    /\ Len(geocoder.sent) = 2
    /\ lastOp.before = 2
    /\ geocoder.sent[1].answer = [raises |-> FALSE, found |-> None]
    /\ geocoder.sent[2].location = lastOp.location
    /\ geocoder.sent[2].region = lastOp.region
    /\ geocoder.sent[1].query = geocoder.sent[2].query
    /\ geocoder.sent[2].answer.found # None
    /\ lastOp.result = AsGeoData(geocoder.sent[2].answer.found[1])

\* The tokens of chunks 1..j in the order of the text: all of chunk 1, and
\* of each later chunk those that lie beyond the end of the chunk before it
\* (chunk j begins at offset (j - 1) * step).
RECURSIVE Rebuilt(_, _, _)
Rebuilt(chunks, step, j) ==
    IF j = 0 THEN <<>>
    ELSE IF j = 1 THEN Tokens(chunks[1])
    ELSE LET toks == Tokens(chunks[j])
             start == (j - 1) * step
             prevEnd == (j - 2) * step + Len(Tokens(chunks[j - 1]))
             from == IF prevEnd > start THEN prevEnd - start + 1 ELSE 1
         IN  Rebuilt(chunks, step, j - 1) \o SubSeq(toks, from, Len(toks))

\* C37: chunker coverage. For chunk_overlap < chunk_size and every text,
\* each token of the text is in a chunk, at its place, and chunk 0 followed
\* by the tokens of each later chunk beyond the end of the chunk before it is
\* the token sequence of the text: no token lost, repeated outside the
\* overlap, or out of order.
C37_ChunkerCoverage ==
    LET toks == Tokens(lastOp.text)
        chunks == lastOp.result.chunks
        step == lastOp.chunk_size - lastOp.chunk_overlap
    IN  (lastOp.op = "chunk" /\ step > 0) =>
           /\ lastOp.outcome = "ok"
           /\ \A p \in 1..Len(toks) :
                 \E j \in 1..Len(chunks) :
                    LET q == p - (j - 1) * step
                        c == Tokens(chunks[j])
                    IN  q \in 1..Len(c) /\ c[q] = toks[p]
           /\ Rebuilt(chunks, step, Len(chunks)) = toks

\* C37 witness: chunk_text has made three chunks that overlap, of tokens
\* that are not all the same.
C37_Witness ==
    /\ lastOp.op = "chunk" /\ lastOp.outcome = "ok"
    /\ lastOp.chunk_overlap >= 1
    /\ lastOp.chunk_size > lastOp.chunk_overlap
    /\ Len(lastOp.result.chunks) >= 3
    /\ \E p \in 2..Len(Tokens(lastOp.text)) :
          Tokens(lastOp.text)[p] # Tokens(lastOp.text)[1]

\* C38: Backend A loads both artifacts or none. Right after a
\* FastDocumentStore is constructed, whichever of faiss.index and docs.pkl
\* the store_path holds, index.ntotal = len(documents) = len(metadata).
C38_LoadAllOrNothing ==
    (backend = "A" /\ lastOp.op = "init" /\ lastOp.outcome = "ok") =>
       /\ index.ntotal = Len(documents)
       /\ Len(documents) = Len(metadata)

====
